---- MODULE Spec2Model ----
(***************************************************************************)
(* SpotifySort: the paginated fetch layer and the multi-source merge of    *)
(* SpotifyLibraryAnalyzer (library_analyzer.py) and the batched playlist   *)
(* builder of SpotifyPlaylistManager (playlist_manager.py, web/app.py).    *)
(* Every remote call of the Spotify client is one step of the model; the   *)
(* local work the code does between two remote calls belongs to the step   *)
(* of the call that precedes it.                                           *)
(***************************************************************************)
EXTENDS Integers, Sequences, FiniteSets, TLC

(***************************************************************************)
(* Bounds of the model.                                                    *)
(***************************************************************************)
MaxSaved == 101      \* saved tracks / user playlists held by the service
MaxLimit == 102      \* largest limit passed to get_saved_tracks
MaxItems == 201      \* items of the playlist read by get_playlist_tracks
MaxId == 2           \* track identities occurring in the merged playlists
MaxPlLen == 3        \* items of a merged playlist
MaxSources == 2      \* length of the playlist_ids list
PageLen == 2         \* page length the service uses for playlist_tracks()
MaxUris == 250       \* URIs passed to add_tracks_to_playlist directly
MaxBuckets == 2      \* buckets of a mapping given to a builder
MaxDecadeTracks == 3 \* tracks given to create_decade_playlists

(***************************************************************************)
(* Program constants.                                                      *)
(***************************************************************************)
batch_size == 50         \* get_saved_tracks / get_user_playlists page size
pl_batch_size == 100     \* get_playlist_tracks page size
None == -1               \* Python's None for an integer argument
liked_songs == 0         \* the sentinel playlist id 'liked_songs'
NullTrack == 0           \* a playlist item whose 'track' is None
add_batch_size == 100    \* add_tracks_to_playlist: URIs per write call
min_tracks_default == 5  \* create_artist_playlists: default of min_tracks
NoUri == 0               \* a track whose 'uri' is None or ''
NoYear == 0              \* a track whose 'release_year' is None

Min(a, b) == IF a < b THEN a ELSE b

SeqsUpTo(S, n) == UNION {[1..k -> S] : k \in 0..n}

Range(s) == {s[i] : i \in 1..Len(s)}

VARIABLES
    op,             \* the operation of the analyzer that is running
    saved,          \* service: the saved-tracks collection (track ids)
    userPl,         \* service: the user's playlists (playlist ids)
    plItems,        \* service: playlist id -> its items (track id or NullTrack)
    limit,          \* get_saved_tracks: the limit argument
    include_liked_songs,  \* get_user_playlists: the flag argument
    playlist_id,    \* get_playlist_tracks: the playlist argument
    playlist_ids,   \* get_tracks_from_playlists: the list of sources
    tracks,         \* the list being collected by the running pagination
    offset,         \* the offset of the next page request
    si,             \* get_tracks_from_playlists: index of the current source
    all_tracks,     \* get_tracks_from_playlists: the merged list
    seen_track_ids, \* get_tracks_from_playlists: identities already merged
    pc,             \* position of the operation
    result,         \* the value returned once pc = "returned"
    calls,          \* history: the remote calls issued so far
    entry,          \* the entry point of the playlist builder that is running
    in_tracks,      \* create_decade_playlists: the tracks argument
    mapping,        \* the bucket mapping, in iteration order: label, tracks
    min_tracks,     \* create_artist_playlists: the min_tracks argument
    bi,             \* index of the bucket being processed
    bpc,            \* position of the builder
    cur_pid,        \* playlist_id of the playlist being filled
    track_uris,     \* add_tracks_to_playlist: the track_uris argument
    bidx,           \* add_tracks_to_playlist: the loop variable i
    created_playlists,  \* the success map, in insertion order
    ret,            \* value returned by a single-playlist entry point
    remote,         \* service: playlist id -> the URIs the playlist holds
    writes,         \* history: the write calls issued so far
    webRemote,      \* service: followed playlist id -> its name and URIs
    webCalls,       \* history: the write calls issued by the web endpoints
    responses,      \* history: the status codes the web endpoints returned
    artistGenres,   \* service: artist id -> the artist's genre list
    audio,          \* service: track id -> audio features, or NoFeatures
    genre_map,      \* analyze_library_by_genre: buckets in insertion order
    mood_map,       \* analyze_library_by_mood: mood -> its tracks
    ti,             \* index of the track or batch being processed
    all_features,   \* get_audio_features: the features collected so far
    artist_ids,     \* get_library_statistics: list(set(...)) of artist ids
    stat_genres,    \* get_library_statistics: the set genres
    fgenres,        \* filter_tracks: the genres argument (<<>>: None or [])
    fmood,          \* filter_tracks: the mood argument ("": None or '')
    year_from,      \* filter_tracks: the year_from argument
    year_to,        \* filter_tracks: the year_to argument
    fartists,       \* filter_tracks: the artists argument (<<>>: None or [])
    filtered,       \* filter_tracks: the list filtered
    filtered_by_genre,  \* filter_tracks: the list filtered_by_genre
    run,            \* the number of finished runs of a repeated classification
    first_map       \* the map the first run of the classification returned

fetchVars == <<op, saved, userPl, plItems, limit, include_liked_songs,
               playlist_id, playlist_ids, tracks, offset, si, all_tracks,
               seen_track_ids, pc, result, calls>>

buildVars == <<entry, in_tracks, mapping, min_tracks, bi, bpc, cur_pid,
               track_uris, bidx, created_playlists, ret, remote, writes>>

\* the arguments of a builder entry point
argVars == <<entry, in_tracks, mapping, min_tracks>>

webVars == <<webRemote, webCalls, responses>>

\* the state of the operations outside the fetch layer and the builder
classVars == <<artistGenres, audio, genre_map, mood_map, ti, all_features,
               artist_ids, stat_genres>>

filterVars == <<fgenres, fmood, year_from, year_to, fartists, filtered,
                filtered_by_genre>>

\* the state of a caller that runs a classification twice
repeatVars == <<run, first_map>>

extVars == <<webVars, classVars, filterVars, repeatVars>>

vars == <<fetchVars, buildVars, extVars>>

(***************************************************************************)
(* The catalog service's paged read: the items of a collection from an     *)
(* offset, and whether a next page exists.                                 *)
(***************************************************************************)
Page(coll, off, size) == SubSeq(coll, off + 1, Min(off + size, Len(coll)))

HasNext(coll, off, size) == off + size < Len(coll)

\* the record kept of a remote call: src is the source being read
Call(api, target, off, ok) ==
    [api |-> api, target |-> target, offset |-> off, ok |-> ok, src |-> si]

\* Python truthiness of an optional integer: None and 0 are false.
Truthy(x) == x # None /\ x # 0

\* tracks[:limit] if limit else tracks
Slice(trk, lim) ==
    IF Truthy(lim) THEN SubSeq(trk, 1, Min(lim, Len(trk))) ELSE trk

\* the for loop over one page of get_saved_tracks: append each item and
\* leave the loop as soon as the limit is reached
RECURSIVE AppendItems(_, _, _)
AppendItems(trk, items, lim) ==
    IF items = <<>> THEN trk
    ELSE LET t2 == Append(trk, Head(items))
         IN IF Truthy(lim) /\ Len(t2) >= lim THEN t2
            ELSE AppendItems(t2, Tail(items), lim)

\* SavedStep with the limit test of the loop exit left out
SavedStepIgnoresLimit(trk, off, lim) ==
    LET items == Page(saved, off, batch_size)
    IN IF items = <<>>
       THEN [tracks |-> trk, offset |-> off, done |-> TRUE]
       ELSE LET t2 == AppendItems(trk, items, lim)
            IN [tracks |-> t2, offset |-> off + batch_size,
                done |-> ~HasNext(saved, off, batch_size)]

\* SavedStep that goes on to the next page after an empty first page
SavedStepPastEmptyPage(trk, off, lim) ==
    LET items == Page(saved, off, batch_size)
    IN IF items = <<>>
       THEN [tracks |-> trk, offset |-> off + batch_size, done |-> off > 0]
       ELSE LET t2 == AppendItems(trk, items, lim)
            IN [tracks |-> t2, offset |-> off + batch_size,
                done |-> ~HasNext(saved, off, batch_size)
                         \/ (Truthy(lim) /\ Len(t2) >= lim)]

\* SavedStep without offset += batch_size
SavedStepKeepsOffset(trk, off, lim) ==
    LET items == Page(saved, off, batch_size)
    IN IF items = <<>>
       THEN [tracks |-> trk, offset |-> off, done |-> TRUE]
       ELSE LET t2 == AppendItems(trk, items, lim)
            IN [tracks |-> t2, offset |-> off,
                done |-> ~HasNext(saved, off, batch_size)
                         \/ (Truthy(lim) /\ Len(t2) >= lim)]

\* one iteration of the while loop of get_saved_tracks, after the page at
\* off has been delivered
SavedStep(trk, off, lim) ==
    LET items == Page(saved, off, batch_size)
    IN IF items = <<>>
       THEN [tracks |-> trk, offset |-> off, done |-> TRUE]
       ELSE LET t2 == AppendItems(trk, items, lim)
            IN [tracks |-> t2, offset |-> off + batch_size,
                done |-> ~HasNext(saved, off, batch_size)
                         \/ (Truthy(lim) /\ Len(t2) >= lim)]

\* one iteration of the while loop of get_user_playlists
UserPlaylistsStep(pls, off) ==
    LET items == Page(userPl, off, batch_size)
    IN IF items = <<>>
       THEN [tracks |-> pls, offset |-> off, done |-> TRUE]
       ELSE [tracks |-> pls \o items, offset |-> off + batch_size,
             done |-> ~HasNext(userPl, off, batch_size)]

IsTrack(item) == item # NullTrack

\* one iteration of the while loop of get_playlist_tracks: items whose
\* track is None are skipped
PlaylistTracksStep(pid, trk, off) ==
    LET items == Page(plItems[pid], off, pl_batch_size)
    IN IF items = <<>>
       THEN [tracks |-> trk, offset |-> off, done |-> TRUE]
       ELSE [tracks |-> trk \o SelectSeq(items, IsTrack),
             offset |-> off + pl_batch_size,
             done |-> ~HasNext(plItems[pid], off, pl_batch_size)]

(***************************************************************************)
(* Inputs.                                                                 *)
(***************************************************************************)
Ids(n) == [i \in 1..n |-> i]

\* a playlist of n items in which every third item has no track
ItemsWithNulls(n) == [i \in 1..n |-> IF i % 3 = 0 THEN NullTrack ELSE i]

Playlists == {1, 2}

NoPlaylists == [p \in Playlists |-> <<>>]

\* no web endpoint has handled a request
NoWeb == webRemote = <<>> /\ webCalls = <<>> /\ responses = <<>>

\* nothing outside the fetch layer and the builder is running
NoClass ==
    /\ artistGenres = <<>> /\ audio = <<>> /\ genre_map = <<>>
    /\ mood_map = <<>> /\ ti = 1 /\ all_features = <<>> /\ artist_ids = <<>>
    /\ stat_genres = {}

NoFilter ==
    /\ fgenres = <<>> /\ fmood = "" /\ year_from = None /\ year_to = None
    /\ fartists = <<>> /\ filtered = <<>> /\ filtered_by_genre = <<>>

\* no classification has been run before
NoRepeat == run = 0 /\ first_map = <<>>

NoExt == NoWeb /\ NoClass /\ NoFilter /\ NoRepeat

\* no entry point of the playlist builder is running
NoBuild ==
    /\ entry = "none" /\ mapping = <<>> /\ min_tracks = 0 /\ bi = 1
    /\ bpc = "done" /\ cur_pid = 0 /\ track_uris = <<>> /\ bidx = 0
    /\ created_playlists = <<>> /\ ret = 0 /\ remote = <<>>
    /\ writes = <<>> /\ in_tracks = <<>>

Idle ==
    /\ tracks = <<>> /\ offset = 0 /\ si = 1 /\ all_tracks = <<>>
    /\ seen_track_ids = {} /\ result = <<>> /\ calls = <<>>
    /\ NoBuild

InitSaved ==
    /\ op = "get_saved_tracks"
    /\ \E n \in 0..MaxSaved : saved = Ids(n)
    /\ limit \in {None} \cup (0..MaxLimit)
    /\ userPl = <<>> /\ plItems = NoPlaylists
    /\ include_liked_songs = FALSE /\ playlist_id = 1 /\ playlist_ids = <<>>
    /\ pc = "run"
    /\ Idle

InitUserPlaylists ==
    /\ op = "get_user_playlists"
    /\ \E n \in 0..MaxSaved : userPl = Ids(n)
    /\ saved = <<>>
    /\ include_liked_songs \in BOOLEAN
    /\ limit = None /\ plItems = NoPlaylists
    /\ playlist_id = 1 /\ playlist_ids = <<>>
    /\ pc = IF include_liked_songs THEN "liked_count" ELSE "run"
    /\ Idle

InitPlaylistTracks ==
    /\ op = "get_playlist_tracks"
    /\ playlist_id = 1
    /\ \E n \in 0..MaxItems : \E nulls \in BOOLEAN :
         plItems = [p \in Playlists |->
                      IF p # 1 THEN <<>>
                      ELSE IF nulls THEN ItemsWithNulls(n) ELSE Ids(n)]
    /\ saved = <<>> /\ userPl = <<>>
    /\ limit = None /\ include_liked_songs = FALSE /\ playlist_ids = <<>>
    /\ pc = "run"
    /\ Idle

(***************************************************************************)
(* get_saved_tracks: one page request and the processing of its answer.    *)
(***************************************************************************)
inputVars == <<op, saved, userPl, plItems, limit, include_liked_songs,
               playlist_id, playlist_ids>>

mergeVars == <<si, all_tracks, seen_track_ids>>

GetSavedTracksPage ==
    /\ op = "get_saved_tracks" /\ pc = "run"
    /\ \E ok \in BOOLEAN :
         /\ calls' = Append(calls,
                 Call("current_user_saved_tracks", liked_songs, offset, ok))
         /\ IF ok
            THEN LET r == SavedStep(tracks, offset, limit)
                 IN /\ tracks' = r.tracks
                    /\ offset' = r.offset
                    /\ pc' = IF r.done THEN "returned" ELSE "run"
                    /\ result' = IF r.done THEN Slice(r.tracks, limit)
                                 ELSE result
            ELSE /\ pc' = "raised"
                 /\ UNCHANGED <<tracks, offset, result>>
    /\ UNCHANGED <<inputVars, mergeVars, buildVars, extVars>>

(***************************************************************************)
(* get_user_playlists: the liked-songs count, whose failure is caught,     *)
(* then the pages of the user's playlists.                                 *)
(***************************************************************************)
GetUserPlaylistsLikedCount ==
    /\ op = "get_user_playlists" /\ pc = "liked_count"
    /\ \E ok \in BOOLEAN :
         /\ calls' = Append(calls,
                 Call("liked_count", liked_songs, 0, ok))
         /\ tracks' = IF ok THEN Append(tracks, liked_songs) ELSE tracks
    /\ pc' = "run"
    /\ UNCHANGED <<inputVars, mergeVars, offset, result, buildVars, extVars>>

GetUserPlaylistsPage ==
    /\ op = "get_user_playlists" /\ pc = "run"
    /\ \E ok \in BOOLEAN :
         /\ calls' = Append(calls,
                 Call("current_user_playlists", liked_songs, offset, ok))
         /\ IF ok
            THEN LET r == UserPlaylistsStep(tracks, offset)
                 IN /\ tracks' = r.tracks
                    /\ offset' = r.offset
                    /\ pc' = IF r.done THEN "returned" ELSE "run"
                    /\ result' = IF r.done THEN r.tracks ELSE result
            ELSE /\ pc' = "raised"
                 /\ UNCHANGED <<tracks, offset, result>>
    /\ UNCHANGED <<inputVars, mergeVars, buildVars, extVars>>

(***************************************************************************)
(* get_playlist_tracks.                                                    *)
(***************************************************************************)
\* GetPlaylistTracksPage with the error swallowed: the tracks collected so
\* far are returned
GetPlaylistTracksPageSwallowsError ==
    /\ op = "get_playlist_tracks" /\ pc = "run"
    /\ \E ok \in BOOLEAN :
         /\ calls' = Append(calls,
                 Call("playlist_tracks", playlist_id, offset, ok))
         /\ IF ok
            THEN LET r == PlaylistTracksStep(playlist_id, tracks, offset)
                 IN /\ tracks' = r.tracks
                    /\ offset' = r.offset
                    /\ pc' = IF r.done THEN "returned" ELSE "run"
                    /\ result' = IF r.done THEN r.tracks ELSE result
            ELSE /\ pc' = "returned"
                 /\ result' = tracks
                 /\ UNCHANGED <<tracks, offset>>
    /\ UNCHANGED <<inputVars, mergeVars, buildVars, extVars>>

GetPlaylistTracksPage ==
    /\ op = "get_playlist_tracks" /\ pc = "run"
    /\ \E ok \in BOOLEAN :
         /\ calls' = Append(calls,
                 Call("playlist_tracks", playlist_id, offset, ok))
         /\ IF ok
            THEN LET r == PlaylistTracksStep(playlist_id, tracks, offset)
                 IN /\ tracks' = r.tracks
                    /\ offset' = r.offset
                    /\ pc' = IF r.done THEN "returned" ELSE "run"
                    /\ result' = IF r.done THEN r.tracks ELSE result
            ELSE /\ pc' = "raised"
                 /\ UNCHANGED <<tracks, offset, result>>
    /\ UNCHANGED <<inputVars, mergeVars, buildVars, extVars>>

(***************************************************************************)
(* get_tracks_from_playlists: the sources are read one after the other;    *)
(* any exception raised while a source is read is caught and logged, and   *)
(* the loop goes on with the next source.                                  *)
(***************************************************************************)
\* sizes of the saved-tracks collection when it is merged as a source
SavedSizes == {1, batch_size + 1}

InitMerge ==
    /\ op = "get_tracks_from_playlists"
    /\ playlist_ids \in SeqsUpTo({liked_songs} \cup Playlists, MaxSources)
    /\ \E long \in SeqsUpTo(1..MaxId, MaxPlLen) :
         \E short \in SeqsUpTo({NullTrack, 1}, 1) :
           plItems = [p \in Playlists |-> IF p = 1 THEN long ELSE short]
    /\ \E n \in SavedSizes : saved = Ids(n)
    /\ userPl = <<>> /\ limit = None /\ include_liked_songs = FALSE
    /\ playlist_id = 1
    /\ pc = "src"
    /\ Idle

\* for track in liked_tracks: keep it unless its id was seen
RECURSIVE MergeLiked(_, _, _)
MergeLiked(all, seen, trks) ==
    IF trks = <<>> THEN [all_tracks |-> all, seen |-> seen]
    ELSE IF Head(trks) \notin seen
         THEN MergeLiked(Append(all, Head(trks)), seen \cup {Head(trks)},
                         Tail(trks))
         ELSE MergeLiked(all, seen, Tail(trks))

\* MergePage without the test on seen_track_ids
RECURSIVE MergePageNoSeenTest(_, _, _)
MergePageNoSeenTest(all, seen, items) ==
    IF items = <<>> THEN [all_tracks |-> all, seen |-> seen]
    ELSE IF IsTrack(Head(items))
         THEN MergePageNoSeenTest(Append(all, Head(items)),
                                  seen \cup {Head(items)}, Tail(items))
         ELSE MergePageNoSeenTest(all, seen, Tail(items))

\* for item in results['items']: keep its track unless the item has no
\* track or the track's id was seen
RECURSIVE MergePage(_, _, _)
MergePage(all, seen, items) ==
    IF items = <<>> THEN [all_tracks |-> all, seen |-> seen]
    ELSE IF IsTrack(Head(items)) /\ Head(items) \notin seen
         THEN MergePage(Append(all, Head(items)), seen \cup {Head(items)},
                        Tail(items))
         ELSE MergePage(all, seen, Tail(items))

\* the for loop moves to the next playlist id
NextSource ==
    /\ si' = si + 1
    /\ pc' = "src"
    /\ tracks' = <<>>
    /\ offset' = 0

\* a page request of the nested get_saved_tracks() call
MergeLikedPage ==
    /\ op = "get_tracks_from_playlists" /\ pc \in {"src", "liked"}
    /\ si <= Len(playlist_ids) /\ playlist_ids[si] = liked_songs
    /\ \E ok \in BOOLEAN :
         /\ calls' = Append(calls,
                 Call("current_user_saved_tracks", liked_songs, offset, ok))
         /\ IF ok
            THEN LET r == SavedStep(tracks, offset, None)
                 IN IF r.done
                    THEN LET m == MergeLiked(all_tracks, seen_track_ids,
                                             Slice(r.tracks, None))
                         IN /\ all_tracks' = m.all_tracks
                            /\ seen_track_ids' = m.seen
                            /\ NextSource
                    ELSE /\ tracks' = r.tracks
                         /\ offset' = r.offset
                         /\ pc' = "liked"
                         /\ UNCHANGED <<si, all_tracks, seen_track_ids>>
            ELSE /\ NextSource
                 /\ UNCHANGED <<all_tracks, seen_track_ids>>
    /\ UNCHANGED <<inputVars, result, buildVars, extVars>>

\* sp.playlist_tracks(playlist_id) or sp.next(results) of a regular playlist
MergePlaylistPage ==
    /\ op = "get_tracks_from_playlists" /\ pc \in {"src", "pl"}
    /\ si <= Len(playlist_ids) /\ playlist_ids[si] # liked_songs
    /\ \E ok \in BOOLEAN :
         /\ calls' = Append(calls,
                 Call(IF pc = "src" THEN "playlist_tracks" ELSE "next",
                      playlist_ids[si], offset, ok))
         /\ IF ok
            THEN LET items == Page(plItems[playlist_ids[si]], offset, PageLen)
                     m == MergePage(all_tracks, seen_track_ids, items)
                 IN /\ all_tracks' = m.all_tracks
                    /\ seen_track_ids' = m.seen
                    /\ IF HasNext(plItems[playlist_ids[si]], offset, PageLen)
                       THEN /\ offset' = offset + PageLen
                            /\ pc' = "pl"
                            /\ UNCHANGED <<si, tracks>>
                       ELSE NextSource
            ELSE /\ NextSource
                 /\ UNCHANGED <<all_tracks, seen_track_ids>>
    /\ UNCHANGED <<inputVars, result, buildVars, extVars>>

\* the for loop is exhausted: return all_tracks
MergeReturn ==
    /\ op = "get_tracks_from_playlists" /\ pc = "src"
    /\ si > Len(playlist_ids)
    /\ pc' = "returned"
    /\ result' = all_tracks
    /\ UNCHANGED <<inputVars, mergeVars, tracks, offset, calls, buildVars,
                   extVars>>

(***************************************************************************)
(* The fetch layer.                                                        *)
(***************************************************************************)
InitFetch ==
    /\ NoExt
    /\ \/ InitSaved
       \/ InitUserPlaylists
       \/ InitPlaylistTracks
       \/ InitMerge

NextFetch ==
    \/ GetSavedTracksPage
    \/ GetUserPlaylistsLikedCount
    \/ GetUserPlaylistsPage
    \/ GetPlaylistTracksPage
    \/ MergeLikedPage
    \/ MergePlaylistPage
    \/ MergeReturn

SpecFetch == InitFetch /\ [][NextFetch]_vars

(***************************************************************************)
(* Properties of the fetch layer.                                          *)
(***************************************************************************)
AllOk == \A i \in 1..Len(calls) : calls[i].ok

Failed(i) == ~calls[i].ok

\* the requests that belong to a pagination loop
IsPageRequest(i) == calls[i].api # "liked_count"

\* C1: for every size of the saved-tracks collection and every limit,
\* get_saved_tracks(limit) returns exactly the first min(N, limit) tracks
\* of the collection in page order (all N when no limit is given).
C1_SavedTracksMinOfTotalAndLimit ==
    (op = "get_saved_tracks" /\ pc = "returned") =>
        result = SubSeq(saved, 1, IF limit = None THEN Len(saved)
                                  ELSE Min(Len(saved), limit))

\* C2: in get_saved_tracks with a limit of at least one track, once the
\* number of collected tracks has reached the limit no further page
\* request is issued.
C2_NoPageRequestAfterLimit ==
    [][(op = "get_saved_tracks" /\ limit >= 1 /\ Len(tracks) >= limit)
          => calls' = calls]_vars

\* C2 witness: the limit was reached while the collection still had tracks
\* beyond the pages requested, and the operation has returned.
C2_Witness ==
    /\ op = "get_saved_tracks" /\ pc = "returned"
    /\ limit >= 1 /\ Len(tracks) = limit
    /\ Len(calls) = 2
    /\ Len(saved) > offset

\* C3 (as claimed): in every paginated fetch a failed page request is the
\* last remote call and the operation does not return a track list as a
\* normal result.
C3_FailedPageAbortsAndRaises ==
    \A i \in 1..Len(calls) :
        (Failed(i) /\ IsPageRequest(i)) =>
            (i = Len(calls) /\ pc # "returned")

\* C3 (amended): in get_saved_tracks, get_user_playlists and
\* get_playlist_tracks a failed page request is the last remote call and
\* the operation raises; in get_tracks_from_playlists a failed page request
\* is not retried and no further page of that source is requested, but the
\* error is caught: the operation never raises and every request after the
\* failure reads a later source.
C3_FailedPageEndsSourceOnly ==
    /\ op # "get_tracks_from_playlists" =>
         \A i \in 1..Len(calls) :
             (Failed(i) /\ IsPageRequest(i)) =>
                 (i = Len(calls) /\ pc = "raised")
    /\ op = "get_tracks_from_playlists" =>
         /\ pc # "raised"
         /\ \A i \in 1..Len(calls) : \A j \in 1..Len(calls) :
                (Failed(i) /\ i < j) => calls[j].src > calls[i].src
         /\ (pc = "src" /\ si <= Len(playlist_ids) /\ calls # <<>>) =>
                calls[Len(calls)].src < si

\* C3 witness: get_tracks_from_playlists returned normally although a page
\* request of its first source failed after a page had been merged, and a
\* later source was still read.
C3_Witness ==
    /\ op = "get_tracks_from_playlists" /\ pc = "returned"
    /\ Len(calls) = 3
    /\ calls[1].ok /\ ~calls[2].ok /\ calls[2].src = 1
    /\ calls[3].ok /\ calls[3].src = 2
    /\ result # <<>>

\* the items of a source that carry a track, in the order the service
\* delivers them
SourceTracks(pid) ==
    IF pid = liked_songs THEN saved ELSE SelectSeq(plItems[pid], IsTrack)

\* the tracks of the first n sources, concatenated
RECURSIVE SourcesConcat(_)
SourcesConcat(n) ==
    IF n = 0 THEN <<>>
    ELSE SourcesConcat(n - 1) \o SourceTracks(playlist_ids[n])

\* s without every occurrence of an identity after its first
FirstOccurrences(s) ==
    LET first == SelectSeq([i \in 1..Len(s) |-> i],
                           LAMBDA i : \A j \in 1..(i - 1) : s[j] # s[i])
    IN [r \in 1..Len(first) |-> s[first[r]]]

\* C4: when every request succeeds, get_tracks_from_playlists returns each
\* distinct track identity of the sources exactly once, at the position of
\* its first occurrence in source order.
C4_MergedTracksFirstSeenOnce ==
    (op = "get_tracks_from_playlists" /\ pc = "returned" /\ AllOk) =>
        result = FirstOccurrences(SourcesConcat(Len(playlist_ids)))

\* C4 witness: a playlist that repeats a track, followed by the liked
\* songs that hold that track again; the later occurrences were dropped.
C4_Witness ==
    /\ op = "get_tracks_from_playlists" /\ pc = "returned" /\ AllOk
    /\ playlist_ids = <<1, liked_songs>>
    /\ Len(plItems[1]) > Cardinality(Range(plItems[1]))
    /\ Range(plItems[1]) \cap Range(saved) # {}
    /\ Len(saved) > batch_size
    /\ Len(result) < Len(SourcesConcat(2))

(***************************************************************************)
(* The playlist builder: SpotifyPlaylistManager and the web endpoint that  *)
(* creates a playlist from filtered tracks.                                *)
(***************************************************************************)
Builders == {"create_genre_playlists", "create_mood_playlists",
             "create_artist_playlists", "create_decade_playlists",
             "create_year_playlists"}

HasUri(t) == t.uri # NoUri

UriOf(t) == t.uri

\* [t['uri'] for t in tracks if t.get('uri')]
WritableUris(trks) ==
    LET kept == SelectSeq(trks, HasUri)
    IN [i \in 1..Len(kept) |-> UriOf(kept[i])]

\* [track['uri'] for track in filtered]
AllUris(trks) == [i \in 1..Len(trks) |-> UriOf(trks[i])]

\* Batch with a slice that is one URI too long
BatchOneTooMany(uris, i) ==
    SubSeq(uris, i + 1, Min(i + add_batch_size + 1, Len(uris)))

\* track_uris[i:i + batch_size]
Batch(uris, i) == SubSeq(uris, i + 1, Min(i + add_batch_size, Len(uris)))

\* the URI list an entry point hands to add_tracks_to_playlist
UrisFor(e, trks) ==
    IF e = "api_create_filtered_playlist" THEN AllUris(trks)
    ELSE WritableUris(trks)

\* n tracks of bucket b; pat says which of them have a URI
TrackList(b, n, pat) ==
    [i \in 1..n |->
        [uri |-> IF pat = "all" \/ (pat = "mixed" /\ i % 2 = 1)
                 THEN 1000 * b + i ELSE NoUri,
         release_year |-> NoYear]]

BucketSizes == {0, 1, add_batch_size + 1, 2 * add_batch_size + 1}

UriPatterns == {"all", "none", "mixed"}

BucketLists(b) ==
    {TrackList(b, n, pat) : n \in BucketSizes, pat \in UriPatterns}

\* the mappings of k buckets, labelled 1..k in iteration order
Mappings(k) ==
    {[b \in 1..k |-> [label |-> b, tracks |-> TrackList(b, n[b], pat[b])]] :
        n \in [1..k -> BucketSizes], pat \in [1..k -> UriPatterns]}

\* a track dictionary without the key 'release_year'
NoKey == -2

\* the label 'Unknown' of analyze_library_by_year
Unknown == -3

\* a loop that passes over no bucket
PassesOverNothing(e, bucket) == FALSE

\* the loop of a builder passes over a bucket without any call
Skipped(e, bucket) ==
    CASE e \in {"create_genre_playlists", "create_mood_playlists"} ->
            bucket.tracks = <<>>
      [] e = "create_artist_playlists" -> Len(bucket.tracks) < min_tracks
      [] e = "create_year_playlists" ->
            bucket.tracks = <<>> \/ bucket.label = Unknown
      [] OTHER -> FALSE

\* the first bucket at or after i that the loop does not pass over
RECURSIVE NextBucket(_)
NextBucket(i) ==
    IF i > Len(mapping) THEN i
    ELSE IF Skipped(entry, mapping[i]) THEN NextBucket(i + 1)
    ELSE i

\* Decade rounding to the nearest decade instead of down
DecadeRoundsToNearest(year) == ((year + 5) \div 10) * 10

Decade(year) == (year \div 10) * 10

\* create_decade_playlists: group the tracks that have a release year by
\* decade, the decades in order of first appearance
RECURSIVE DecadeMap(_)
DecadeMap(trks) ==
    IF trks = <<>> THEN <<>>
    ELSE LET before == DecadeMap(SubSeq(trks, 1, Len(trks) - 1))
             t == trks[Len(trks)]
         IN IF t.release_year = NoYear THEN before
            ELSE IF \E k \in 1..Len(before) :
                        before[k].label = Decade(t.release_year)
                 THEN [k \in 1..Len(before) |->
                         IF before[k].label = Decade(t.release_year)
                         THEN [before[k] EXCEPT !.tracks = Append(@, t)]
                         ELSE before[k]]
                 ELSE Append(before, [label |-> Decade(t.release_year),
                                      tracks |-> <<t>>])

Years == {NoYear, 1985, 1994, 1999}

\* the tracks given to create_decade_playlists: track i has URI i or none
DecadeInputs ==
    UNION {{[i \in 1..k |-> [id |-> i, uri |-> IF u[i] THEN i ELSE NoUri,
                             release_year |-> y[i]]] :
               y \in [1..k -> Years], u \in [1..k -> BOOLEAN]} :
           k \in 0..MaxDecadeTracks}

MaxYearTracks == 2  \* tracks given to analyze_library_by_year

\* track.get('release_year', 'Unknown'): the value under the key, None
\* included, or 'Unknown' when the dictionary has no such key
YearLabel(t) ==
    CASE t.release_year = NoKey -> Unknown
      [] t.release_year = NoYear -> None
      [] OTHER -> t.release_year

\* analyze_library_by_year: year_map[year].append(track) for every track,
\* the labels in order of first appearance
RECURSIVE YearMap(_)
YearMap(trks) ==
    IF trks = <<>> THEN <<>>
    ELSE LET before == YearMap(SubSeq(trks, 1, Len(trks) - 1))
             t == trks[Len(trks)]
         IN IF \E k \in 1..Len(before) : before[k].label = YearLabel(t)
            THEN [k \in 1..Len(before) |->
                    IF before[k].label = YearLabel(t)
                    THEN [before[k] EXCEPT !.tracks = Append(@, t)]
                    ELSE before[k]]
            ELSE Append(before, [label |-> YearLabel(t), tracks |-> <<t>>])

\* the tracks given to analyze_library_by_year: a track made by
\* _extract_track_info has a release year or None under the key, a
\* dictionary from elsewhere may lack the key; track i has URI i
YearInputs ==
    UNION {{[i \in 1..k |-> [id |-> i, uri |-> i, release_year |-> y[i]]] :
               y \in [1..k -> {NoKey, NoYear, 1985, 1994}]} :
           k \in 0..MaxYearTracks}

NoFetch ==
    /\ op = "none" /\ saved = <<>> /\ userPl = <<>> /\ plItems = NoPlaylists
    /\ limit = None /\ include_liked_songs = FALSE /\ playlist_id = 1
    /\ playlist_ids = <<>> /\ tracks = <<>> /\ offset = 0 /\ si = 1
    /\ all_tracks = <<>> /\ seen_track_ids = {} /\ pc = "returned"
    /\ result = <<>> /\ calls = <<>>

BuildIdle ==
    /\ cur_pid = 0 /\ track_uris = <<>> /\ bidx = 0
    /\ created_playlists = <<>> /\ ret = 0 /\ remote = <<>> /\ writes = <<>>
    /\ NoFetch

\* create_genre_playlists, create_mood_playlists, create_artist_playlists
InitBuilder ==
    /\ entry \in {"create_genre_playlists", "create_mood_playlists",
                  "create_artist_playlists"}
    /\ \E k \in 0..MaxBuckets : mapping \in Mappings(k)
    /\ in_tracks = <<>>
    /\ min_tracks \in IF entry = "create_artist_playlists"
                      THEN {0, min_tracks_default} ELSE {0}
    /\ bi = NextBucket(1)
    /\ bpc = "bucket"
    /\ BuildIdle

InitDecade ==
    /\ entry = "create_decade_playlists"
    /\ in_tracks \in DecadeInputs
    /\ mapping = DecadeMap(in_tracks)
    /\ min_tracks = 0
    /\ bi = 1
    /\ bpc = "bucket"
    /\ BuildIdle

\* create_year_playlists(analyze_library_by_year(tracks))
InitYear ==
    /\ entry = "create_year_playlists"
    /\ in_tracks \in YearInputs
    /\ mapping = YearMap(in_tracks)
    /\ min_tracks = 0
    /\ bi = NextBucket(1)
    /\ bpc = "bucket"
    /\ BuildIdle

\* create_custom_playlist and the web endpoint: one list of tracks
InitSingle ==
    /\ entry \in {"create_custom_playlist", "api_create_filtered_playlist"}
    /\ \E trks \in BucketLists(1) :
         mapping = <<[label |-> 1, tracks |-> trks]>>
    /\ in_tracks = <<>>
    /\ min_tracks = 0
    /\ bi = 1
    /\ bpc = "bucket"
    /\ BuildIdle

\* add_tracks_to_playlist called on an existing playlist
InitAddTracks ==
    /\ entry = "add_tracks_to_playlist"
    /\ \E n \in 0..MaxUris :
         /\ mapping = <<[label |-> 1, tracks |-> TrackList(1, n, "all")]>>
         /\ track_uris = WritableUris(TrackList(1, n, "all"))
    /\ in_tracks = <<>> /\ min_tracks = 0 /\ bi = 1 /\ bpc = "add"
    /\ cur_pid = 1 /\ remote = << <<>> >> /\ bidx = 0
    /\ created_playlists = <<>> /\ ret = 0 /\ writes = <<>>
    /\ NoFetch

InitBuild ==
    /\ NoExt
    /\ \/ InitBuilder
       \/ InitDecade
       \/ InitYear
       \/ InitSingle
       \/ InitAddTracks

(***************************************************************************)
(* The write calls.                                                        *)
(***************************************************************************)
Write(api, pid, uris, off, ok) ==
    [api |-> api, pid |-> pid, bucket |-> bi, uris |-> uris,
     offset |-> off, ok |-> ok]

\* OnBucketError leaving the loop instead of going on
OnBucketErrorLeavesLoop(i) == Len(mapping) + 1

\* OnBucketError trying the same bucket again
OnBucketErrorRetries(i) == NextBucket(i)

\* except Exception in the loop of a builder: log, go on with the next bucket
OnBucketError(i) == NextBucket(i + 1)

\* AddOutcome with the exception handled inside the loop: the batches
\* after a failed one are still written
AddOutcomeGoesOn(uris, i, ok) ==
    [more |-> i + add_batch_size < Len(uris), success |-> ok]

\* how the loop of add_tracks_to_playlist goes on after the call for the
\* batch at i: an exception leaves the loop and False is returned
AddOutcome(uris, i, ok) ==
    IF ok THEN [more |-> i + add_batch_size < Len(uris), success |-> TRUE]
    ELSE [more |-> FALSE, success |-> FALSE]

\* a builder records the playlist under the bucket's label, whatever
\* add_tracks_to_playlist returned, and goes on with the next bucket
RecordBucket(pid) ==
    /\ created_playlists' =
           Append(created_playlists, [label |-> mapping[bi].label, id |-> pid])
    /\ bi' = NextBucket(bi + 1)
    /\ bpc' = "bucket"
    /\ UNCHANGED ret

\* the entry point returns v
Return(v) ==
    /\ ret' = v
    /\ bpc' = "done"
    /\ UNCHANGED <<bi, created_playlists>>

\* sp.user_playlist_create, and the code up to the next remote call
CreatePlaylist ==
    /\ entry \in Builders \cup {"create_custom_playlist",
                                "api_create_filtered_playlist"}
    /\ bpc = "bucket" /\ bi <= Len(mapping)
    /\ \E ok \in BOOLEAN :
         LET pid == Len(remote) + 1
             uris == UrisFor(entry, mapping[bi].tracks)
         IN /\ writes' = Append(writes,
                   Write("user_playlist_create", IF ok THEN pid ELSE 0,
                         <<>>, 0, ok))
            /\ remote' = IF ok THEN Append(remote, <<>>) ELSE remote
            /\ IF ~ok
               THEN /\ CASE entry \in Builders ->
                               /\ bi' = OnBucketError(bi)
                               /\ UNCHANGED <<bpc, created_playlists, ret>>
                          [] entry = "create_custom_playlist" -> Return(None)
                          [] OTHER -> Return([error |-> 500])
                    /\ UNCHANGED <<cur_pid, track_uris, bidx>>
               ELSE IF uris = <<>>
               THEN /\ CASE entry \in Builders -> RecordBucket(pid)
                          [] entry = "create_custom_playlist" -> Return(None)
                          [] OTHER -> Return([success |-> FALSE,
                                              playlist_id |-> pid])
                    /\ UNCHANGED <<cur_pid, track_uris, bidx>>
               ELSE /\ cur_pid' = pid
                    /\ track_uris' = uris
                    /\ bidx' = 0
                    /\ bpc' = "add"
                    /\ UNCHANGED <<bi, created_playlists, ret>>
    /\ UNCHANGED <<argVars, fetchVars, extVars>>

\* sp.playlist_add_items for the batch at bidx, and the code up to the next
\* remote call
AddItems ==
    /\ bpc = "add" /\ track_uris # <<>>
    /\ \E ok \in BOOLEAN :
         LET batch == Batch(track_uris, bidx)
             out == AddOutcome(track_uris, bidx, ok)
         IN /\ writes' = Append(writes,
                   Write("playlist_add_items", cur_pid, batch, bidx, ok))
            /\ remote' = IF ok THEN [remote EXCEPT ![cur_pid] = @ \o batch]
                         ELSE remote
            /\ IF out.more
               THEN /\ bidx' = bidx + add_batch_size
                    /\ UNCHANGED <<bi, bpc, created_playlists, ret>>
               ELSE /\ CASE entry \in Builders -> RecordBucket(cur_pid)
                          [] entry = "create_custom_playlist" ->
                               Return(cur_pid)
                          [] entry = "api_create_filtered_playlist" ->
                               Return([success |-> out.success,
                                       playlist_id |-> cur_pid])
                          [] OTHER -> Return(out.success)
                    /\ UNCHANGED bidx
    /\ UNCHANGED <<argVars, cur_pid, track_uris, fetchVars, extVars>>

\* add_tracks_to_playlist with no URI: warn and return False
AddNothing ==
    /\ entry = "add_tracks_to_playlist"
    /\ bpc = "add" /\ track_uris = <<>>
    /\ Return(FALSE)
    /\ UNCHANGED <<argVars, cur_pid, track_uris, bidx,
                   remote, writes, fetchVars, extVars>>

\* the loop of a builder is exhausted: return created_playlists
BuilderReturn ==
    /\ entry \in Builders
    /\ bpc = "bucket" /\ bi > Len(mapping)
    /\ Return(created_playlists)
    /\ UNCHANGED <<argVars, cur_pid, track_uris, bidx,
                   remote, writes, fetchVars, extVars>>

NextBuild ==
    \/ CreatePlaylist
    \/ AddItems
    \/ AddNothing
    \/ BuilderReturn

SpecBuild == InitBuild /\ [][NextBuild]_vars

(***************************************************************************)
(* Properties of the playlist builder.                                     *)
(***************************************************************************)
IsCreate(w) == w.api = "user_playlist_create"

IsAdd(w) == w.api = "playlist_add_items"

\* the URI list handed to add_tracks_to_playlist for bucket b
BucketUris(b) == UrisFor(entry, mapping[b].tracks)

\* the add-items calls issued for bucket b, in call order
BucketAdds(b) == SelectSeq(writes, LAMBDA w : IsAdd(w) /\ w.bucket = b)

\* the run is past bucket b
BucketDone(b) == bpc = "done" \/ bi > b

\* add_tracks_to_playlist was entered for bucket b
AddEntered(b) ==
    \/ entry = "add_tracks_to_playlist"
    \/ \E i \in 1..Len(writes) :
          IsCreate(writes[i]) /\ writes[i].bucket = b /\ writes[i].ok

NoFailedAdd(b) ==
    \A i \in 1..Len(writes) :
        (IsAdd(writes[i]) /\ writes[i].bucket = b) => writes[i].ok

RECURSIVE ConcatUris(_)
ConcatUris(ws) ==
    IF ws = <<>> THEN <<>> ELSE Head(ws).uris \o ConcatUris(Tail(ws))

\* C5: when no write fails, add_tracks_to_playlist on n > 0 URIs issues
\* exactly ceil(n/100) add-items calls, each of at most 100 URIs and all
\* but the last of exactly 100, whose batches concatenated in call order
\* are the URI list.
C5_BatchesPartitionUriList ==
    \A b \in 1..Len(mapping) :
        (AddEntered(b) /\ BucketDone(b) /\ NoFailedAdd(b)
            /\ BucketUris(b) # <<>>) =>
            LET adds == BucketAdds(b)
                n == Len(BucketUris(b))
            IN /\ Len(adds) = (n + 99) \div 100
               /\ \A k \in 1..Len(adds) :
                    /\ Len(adds[k].uris) <= 100
                    /\ k < Len(adds) => Len(adds[k].uris) = 100
               /\ ConcatUris(adds) = BucketUris(b)

\* C5 witness: 250 URIs were written by three calls of 100, 100 and 50.
C5_Witness ==
    /\ entry = "add_tracks_to_playlist" /\ bpc = "done" /\ ret = TRUE
    /\ Len(track_uris) = 250
    /\ Len(writes) = 3
    /\ Len(writes[1].uris) = 100 /\ Len(writes[2].uris) = 100
    /\ Len(writes[3].uris) = 50
    /\ remote[1] = track_uris

\* the bucket of the mapping that carries a label
BucketOf(label) == CHOOSE b \in 1..Len(mapping) : mapping[b].label = label

\* C6: a label is a key of the map a builder returns only if the bucket's
\* playlist was created and every one of its batches was written.
C6_SuccessMapOnlyFullyWritten ==
    (entry \in Builders /\ bpc = "done") =>
        \A k \in 1..Len(ret) :
            /\ NoFailedAdd(BucketOf(ret[k].label))
            /\ remote[ret[k].id] = BucketUris(BucketOf(ret[k].label))

\* bucket b was processed: its playlist creation was attempted and, when
\* the playlist exists and the bucket has URIs, its first batch was sent
Processed(b) ==
    \E i \in 1..Len(writes) :
        /\ IsCreate(writes[i]) /\ writes[i].bucket = b
        /\ (writes[i].ok /\ BucketUris(b) # <<>>) =>
              \E j \in (i + 1)..Len(writes) :
                  /\ IsAdd(writes[j]) /\ writes[j].bucket = b
                  /\ writes[j].offset = 0 /\ writes[j].pid = writes[i].pid

BucketOk(b) ==
    \A i \in 1..Len(writes) : writes[i].bucket = b => writes[i].ok

InMap(m, label) == \E k \in 1..Len(m) : m[k].label = label

\* C7: whatever write fails for a bucket, every bucket of the mapping the
\* loop does not pass over is processed, a bucket none of whose own writes
\* failed is fully written and in the returned map, and the builder
\* returns the map.
C7_FailureNeverStopsTheRun ==
    entry \in Builders =>
        /\ \A b \in 1..Len(mapping) :
             (BucketDone(b) /\ ~Skipped(entry, mapping[b])) =>
                 /\ Processed(b)
                 /\ BucketOk(b) =>
                      /\ InMap(created_playlists, mapping[b].label)
                      /\ \E k \in 1..Len(created_playlists) :
                           /\ created_playlists[k].label = mapping[b].label
                           /\ remote[created_playlists[k].id] = BucketUris(b)
        /\ bpc = "done" => ret = created_playlists

\* C7 witness: the second batch of bucket 1 failed, and bucket 2 was still
\* created, written in two batches and returned in the map.
C7_Witness ==
    /\ entry \in Builders /\ bpc = "done"
    /\ Len(mapping) = 2
    /\ Len(BucketAdds(1)) = 2 /\ ~BucketAdds(1)[2].ok
    /\ Len(BucketAdds(2)) = 2 /\ BucketOk(2)
    /\ InMap(ret, mapping[2].label)
    /\ remote[2] = BucketUris(2)

\* C8: for a bucket that has tracks but none with a URI, no create-playlist
\* call is issued and the label is not in the returned map.
C8_NoPlaylistForUnwritableBucket ==
    entry \in Builders \cup {"create_custom_playlist"} =>
        \A b \in 1..Len(mapping) :
            (mapping[b].tracks # <<>> /\ WritableUris(mapping[b].tracks) = <<>>)
                => /\ \A i \in 1..Len(writes) :
                        ~(IsCreate(writes[i]) /\ writes[i].bucket = b)
                   /\ (entry \in Builders /\ bpc = "done") =>
                        ~InMap(ret, mapping[b].label)

\* the number of successful add-items calls to playlist p among the first
\* n write calls
RECURSIVE AddsWritten(_, _)
AddsWritten(p, n) ==
    IF n = 0 THEN 0
    ELSE AddsWritten(p, n - 1)
         + (IF IsAdd(writes[n]) /\ writes[n].pid = p /\ writes[n].ok
            THEN 1 ELSE 0)

\* C9: after batches 1..k of a playlist were written and batch k+1 failed,
\* no further call targets that playlist (no further batch, no removal, no
\* deletion), and the playlist holds exactly the URIs of batches 1..k in
\* order.
C9_FailedBatchLeavesEarlierBatches ==
    \A i \in 1..Len(writes) :
        (IsAdd(writes[i]) /\ ~writes[i].ok) =>
            LET p == writes[i].pid
                k == AddsWritten(p, i)
            IN /\ \A j \in (i + 1)..Len(writes) : writes[j].pid # p
               /\ \A j \in 1..Len(writes) :
                    IsCreate(writes[j]) \/ IsAdd(writes[j])
               /\ writes[i].offset = add_batch_size * k
               /\ remote[p] = SubSeq(BucketUris(writes[i].bucket), 1,
                                     add_batch_size * k)

\* C9 witness: two batches were written, the third failed, and the run is
\* over.
C9_Witness ==
    /\ bpc = "done"
    /\ Len(writes) >= 3
    /\ \E i \in 3..Len(writes) :
         /\ IsAdd(writes[i]) /\ ~writes[i].ok
         /\ AddsWritten(writes[i].pid, i) = 2
         /\ Len(remote[writes[i].pid]) = 200
         /\ Len(BucketUris(writes[i].bucket)) > 200

\* C10: no add-items call of any entry point carries the URI of a track
\* whose URI is absent or empty.
C10_NoWriteCarriesAbsentUri ==
    \A i \in 1..Len(writes) :
        IsAdd(writes[i]) =>
            \A k \in 1..Len(writes[i].uris) : writes[i].uris[k] # NoUri

(***************************************************************************)
(* Properties of create_decade_playlists.                                  *)
(***************************************************************************)
\* the decade buckets that hold track t
BucketsHolding(t) ==
    {k \in 1..Len(mapping) :
        \E j \in 1..Len(mapping[k].tracks) : mapping[k].tracks[j] = t}

\* how often track t occurs in bucket k
TimesInBucket(t, k) ==
    Cardinality({j \in 1..Len(mapping[k].tracks) : mapping[k].tracks[j] = t})

\* C12: in create_decade_playlists every track with a release year y is in
\* exactly one decade bucket, once, and that bucket's label is the multiple
\* of ten with label <= y < label + 10 (1994 only in 1990); a track with no
\* release year is in no bucket; no two buckets share a label.
C12_DecadeBucketOfEveryTrack ==
    entry = "create_decade_playlists" =>
        /\ \A k1, k2 \in 1..Len(mapping) :
               mapping[k1].label = mapping[k2].label => k1 = k2
        /\ \A i \in 1..Len(in_tracks) :
               LET t == in_tracks[i]
                   y == t.release_year
               IN IF y = NoYear THEN BucketsHolding(t) = {}
                  ELSE /\ Cardinality(BucketsHolding(t)) = 1
                       /\ \A k \in BucketsHolding(t) :
                              /\ mapping[k].label % 10 = 0
                              /\ mapping[k].label <= y
                              /\ y < mapping[k].label + 10
                              /\ TimesInBucket(t, k) = 1

\* C12 witness: create_decade_playlists has returned for an input with a
\* track of 1994, a track of 1999 and a track without a release year; the
\* only bucket is 1990 and holds the first two.
C12_Witness ==
    /\ entry = "create_decade_playlists" /\ bpc = "done"
    /\ Len(in_tracks) = 3
    /\ in_tracks[1].release_year = 1994
    /\ in_tracks[2].release_year = NoYear
    /\ in_tracks[3].release_year = 1999
    /\ Len(mapping) = 1 /\ mapping[1].label = 1990
    /\ mapping[1].tracks = <<in_tracks[1], in_tracks[3]>>
    /\ \E i \in 1..Len(writes) : IsCreate(writes[i]) /\ writes[i].ok

\* C13: create_decade_playlists issues its create-playlist calls in
\* strictly increasing order of the decade, whatever the order of the input
\* tracks.
C13_DecadeCreatesAscending ==
    entry = "create_decade_playlists" =>
        \A i, j \in 1..Len(writes) :
            (i < j /\ IsCreate(writes[i]) /\ IsCreate(writes[j])) =>
                mapping[writes[i].bucket].label
                    < mapping[writes[j].bucket].label

(***************************************************************************)
(* The playlist endpoints of the web application (web/app.py): each        *)
(* request is handled by one step, which issues at most one remote call.   *)
(***************************************************************************)
MaxRequests == 2     \* requests handled by the web application

NoName == 0          \* a request whose 'name' is absent or empty

\* the playlist ids a request URL can carry: <playlist_id> is any string,
\* among them the id the playlist list shows for the liked songs
UrlPlaylistIds == {liked_songs} \cup Playlists

WebCall(api, pid, ok) == [api |-> api, pid |-> pid, ok |-> ok]

\* the service carries out a write only on a playlist the user follows;
\* any other id, the sentinel included, makes the client raise
Accepts(pid) == pid \in DOMAIN webRemote

InitWeb ==
    /\ webRemote = [p \in Playlists |-> [name |-> 1, uris |-> <<1, 2, 1>>]]
    /\ webCalls = <<>>
    /\ responses = <<>>
    /\ NoFetch
    /\ NoBuild
    /\ NoClass
    /\ NoFilter
    /\ NoRepeat

\* return jsonify(...), code
Respond(code) == responses' = Append(responses, code)

\* the part every endpoint starts with: no client, or a required field of
\* the request body missing
Rejected(authenticated, field) ==
    IF ~authenticated THEN 401 ELSE IF field = 0 THEN 400 ELSE 200

\* DELETE /api/playlist/<playlist_id>/tracks
ApiRemoveTrackFromPlaylist ==
    /\ Len(responses) < MaxRequests
    /\ \E authenticated, ok \in BOOLEAN, pid \in UrlPlaylistIds,
          track_uri \in {NoUri, 1} :
         IF Rejected(authenticated, track_uri) # 200
         THEN /\ Respond(Rejected(authenticated, track_uri))
              /\ UNCHANGED <<webRemote, webCalls>>
         ELSE LET done == ok /\ Accepts(pid)
              IN /\ webCalls' = Append(webCalls,
                        WebCall("playlist_remove_all_occurrences_of_items",
                                pid, done))
                 /\ webRemote' =
                        IF done
                        THEN [webRemote EXCEPT ![pid].uris =
                                 SelectSeq(@, LAMBDA u : u # track_uri)]
                        ELSE webRemote
                 /\ Respond(IF done THEN 200 ELSE 500)
    /\ UNCHANGED <<fetchVars, buildVars, classVars, filterVars, repeatVars>>

\* POST /api/playlist/<playlist_id>/rename
ApiRenamePlaylist ==
    /\ Len(responses) < MaxRequests
    /\ \E authenticated, ok \in BOOLEAN, pid \in UrlPlaylistIds,
          new_name \in {NoName, 2} :
         IF Rejected(authenticated, new_name) # 200
         THEN /\ Respond(Rejected(authenticated, new_name))
              /\ UNCHANGED <<webRemote, webCalls>>
         ELSE LET done == ok /\ Accepts(pid)
              IN /\ webCalls' = Append(webCalls,
                        WebCall("playlist_change_details", pid, done))
                 /\ webRemote' =
                        IF done
                        THEN [webRemote EXCEPT ![pid].name = new_name]
                        ELSE webRemote
                 /\ Respond(IF done THEN 200 ELSE 500)
    /\ UNCHANGED <<fetchVars, buildVars, classVars, filterVars, repeatVars>>

\* DELETE /api/playlist/<playlist_id>
ApiDeletePlaylist ==
    /\ Len(responses) < MaxRequests
    /\ \E authenticated, ok \in BOOLEAN, pid \in UrlPlaylistIds :
         IF ~authenticated
         THEN /\ Respond(401)
              /\ UNCHANGED <<webRemote, webCalls>>
         ELSE LET done == ok /\ Accepts(pid)
              IN /\ webCalls' = Append(webCalls,
                        WebCall("current_user_unfollow_playlist", pid, done))
                 /\ webRemote' =
                        IF done
                        THEN [q \in DOMAIN webRemote \ {pid} |-> webRemote[q]]
                        ELSE webRemote
                 /\ Respond(IF done THEN 200 ELSE 500)
    /\ UNCHANGED <<fetchVars, buildVars, classVars, filterVars, repeatVars>>

NextWeb ==
    \/ ApiRemoveTrackFromPlaylist
    \/ ApiRenamePlaylist
    \/ ApiDeletePlaylist

SpecWeb == InitWeb /\ [][NextWeb]_vars

\* C11: no remove-items, rename or unfollow call of the web endpoints and
\* no add-items call of the builder is issued with the playlist id
\* 'liked_songs'.
C11_LikedSongsNeverWritten ==
    /\ \A i \in 1..Len(webCalls) : webCalls[i].pid # liked_songs
    /\ \A i \in 1..Len(writes) :
           IsAdd(writes[i]) => writes[i].pid # liked_songs

(***************************************************************************)
(* Genre classification: SpotifyLibraryAnalyzer.analyze_library_by_genre.  *)
(* A track is a record with its id and the id of its primary artist        *)
(* (track['artists'][0]['id']); one step per sp.artist call.               *)
(***************************************************************************)
MaxGenreTracks == 3  \* tracks given to analyze_library_by_genre
MaxArtists == 2      \* artist ids known to the service

\* the genre lists an artist of the service can have
GenreLists ==
    {<<>>, <<"rock">>, <<"dream pop", "shoegaze">>, <<"shoegaze", "rock">>}

\* the variables of the fetch layer that a classification leaves alone
pageVars == <<saved, userPl, plItems, limit, include_liked_songs,
              playlist_id, playlist_ids, offset, si, all_tracks,
              seen_track_ids>>

NoPaging ==
    /\ saved = <<>> /\ userPl = <<>> /\ plItems = NoPlaylists
    /\ limit = None /\ include_liked_songs = FALSE /\ playlist_id = 1
    /\ playlist_ids = <<>> /\ offset = 0 /\ si = 1 /\ all_tracks = <<>>
    /\ seen_track_ids = {}

\* genre_map[genre].append(track) on a defaultdict(list)
AppendToBucket(map, label, t) ==
    IF \E k \in 1..Len(map) : map[k].label = label
    THEN [k \in 1..Len(map) |->
            IF map[k].label = label
            THEN [map[k] EXCEPT !.tracks = Append(@, t)]
            ELSE map[k]]
    ELSE Append(map, [label |-> label, tracks |-> <<t>>])

\* for genre in genres: genre_map[genre].append(track)
RECURSIVE AppendToBuckets(_, _, _)
AppendToBuckets(map, labels, t) ==
    IF labels = <<>> THEN map
    ELSE AppendToBuckets(AppendToBucket(map, Head(labels), t),
                         Tail(labels), t)

\* GenresOrUnknown without the replacement of an empty genre list
GenresOrNothing(genres) == genres

\* if not genres: genres = ['Unknown']
GenresOrUnknown(genres) == IF genres = <<>> THEN <<"Unknown">> ELSE genres

InitGenre ==
    /\ op = "analyze_library_by_genre"
    /\ \E n \in 0..MaxGenreTracks : \E a \in [1..n -> 1..MaxArtists] :
          tracks = [i \in 1..n |-> [id |-> i, artist |-> a[i]]]
    /\ artistGenres \in [1..MaxArtists -> GenreLists]
    /\ audio = <<>> /\ genre_map = <<>> /\ mood_map = <<>> /\ ti = 1
    /\ all_features = <<>> /\ artist_ids = <<>> /\ stat_genres = {}
    /\ pc = "run" /\ result = <<>> /\ calls = <<>>
    /\ NoPaging
    /\ NoBuild
    /\ NoWeb
    /\ NoFilter
    /\ NoRepeat

\* AnalyzeGenreTrack with a handler that only logs: the track of a failed
\* lookup is left out of the map
AnalyzeGenreTrackDropsFailed ==
    /\ op = "analyze_library_by_genre" /\ pc = "run" /\ ti <= Len(tracks)
    /\ \E ok \in BOOLEAN :
         LET track == tracks[ti]
             artist_id == track.artist
             genres == IF ok THEN GenresOrUnknown(artistGenres[artist_id])
                       ELSE <<>>
             map == AppendToBuckets(genre_map, genres, track)
         IN /\ calls' = Append(calls, Call("artist", artist_id, 0, ok))
            /\ genre_map' = map
            /\ ti' = ti + 1
            /\ IF ti = Len(tracks)
               THEN pc' = "returned" /\ result' = map
               ELSE UNCHANGED <<pc, result>>
    /\ UNCHANGED <<op, tracks, pageVars, artistGenres, audio, mood_map,
                   all_features, artist_ids, stat_genres, buildVars, webVars,
                   filterVars, repeatVars>>

\* one iteration of the loop over the tracks: sp.artist(artist_id), the
\* appends, and the return after the last track
AnalyzeGenreTrack ==
    /\ op = "analyze_library_by_genre" /\ pc = "run" /\ ti <= Len(tracks)
    /\ \E ok \in BOOLEAN :
         LET track == tracks[ti]
             artist_id == track.artist
             genres == IF ok THEN GenresOrUnknown(artistGenres[artist_id])
                       ELSE <<"Unknown">>
             map == AppendToBuckets(genre_map, genres, track)
         IN /\ calls' = Append(calls, Call("artist", artist_id, 0, ok))
            /\ genre_map' = map
            /\ ti' = ti + 1
            /\ IF ti = Len(tracks)
               THEN pc' = "returned" /\ result' = map
               ELSE UNCHANGED <<pc, result>>
    /\ UNCHANGED <<op, tracks, pageVars, artistGenres, audio, mood_map,
                   all_features, artist_ids, stat_genres, buildVars, webVars,
                   filterVars, repeatVars>>

\* no track: the loop body never runs, return dict(genre_map)
AnalyzeGenreEmpty ==
    /\ op = "analyze_library_by_genre" /\ pc = "run" /\ tracks = <<>>
    /\ pc' = "returned"
    /\ result' = genre_map
    /\ UNCHANGED <<op, tracks, pageVars, calls, classVars, buildVars, webVars,
                   filterVars, repeatVars>>

NextGenre ==
    \/ AnalyzeGenreTrack
    \/ AnalyzeGenreEmpty

SpecGenre == InitGenre /\ [][NextGenre]_vars

(***************************************************************************)
(* Properties of the genre classification.                                 *)
(***************************************************************************)
Labels(map) == {map[k].label : k \in 1..Len(map)}

\* how often track t occurs under label g of a bucket map
TimesUnder(map, g, t) ==
    Cardinality({kj \in (1..Len(map)) \X (1..MaxGenreTracks) :
                    /\ map[kj[1]].label = g
                    /\ kj[2] <= Len(map[kj[1]].tracks)
                    /\ map[kj[1]].tracks[kj[2]] = t})

\* the labels track i belongs under: its primary artist's genres, or
\* 'Unknown' when there are none or when the lookup for the track failed
ExpectedGenres(i) ==
    LET G == Range(artistGenres[tracks[i].artist])
    IN IF G = {} \/ ~calls[i].ok THEN {"Unknown"} ELSE G

\* C14: analyze_library_by_genre returns a map in which a track whose
\* primary artist has no genre is once under 'Unknown' and nowhere else,
\* and a track whose primary artist has genres G is exactly once under
\* every genre of G and nowhere else; a track whose artist lookup raised is
\* once under 'Unknown' and nowhere else.
C14_GenreBucketsOfEveryTrack ==
    (op = "analyze_library_by_genre" /\ pc = "returned") =>
        /\ \A k1, k2 \in 1..Len(result) :
               result[k1].label = result[k2].label => k1 = k2
        /\ \A i \in 1..Len(tracks) :
               \A g \in Labels(result) \cup ExpectedGenres(i) :
                   TimesUnder(result, g, tracks[i]) =
                       IF g \in ExpectedGenres(i) THEN 1 ELSE 0

\* C14 witness: a track of an artist without genres and a track of an
\* artist with the genres dream pop and shoegaze were classified, every
\* lookup succeeded.
C14_Witness ==
    /\ op = "analyze_library_by_genre" /\ pc = "returned" /\ AllOk
    /\ artistGenres = << <<>>, <<"dream pop", "shoegaze">> >>
    /\ tracks = <<[id |-> 1, artist |-> 1], [id |-> 2, artist |-> 2]>>
    /\ result = <<[label |-> "Unknown", tracks |-> <<tracks[1]>>],
                  [label |-> "dream pop", tracks |-> <<tracks[2]>>],
                  [label |-> "shoegaze", tracks |-> <<tracks[2]>>]>>

\* C15: in one run of analyze_library_by_genre the artist lookup is issued
\* at most once per distinct primary artist: the number of lookups is the
\* number of distinct primary artists of the tracks.
C15_OneLookupPerArtist ==
    (op = "analyze_library_by_genre" /\ pc = "returned") =>
        /\ \A i, j \in 1..Len(calls) :
               calls[i].target = calls[j].target => i = j
        /\ Len(calls) =
               Cardinality({tracks[i].artist : i \in 1..Len(tracks)})

(***************************************************************************)
(* Mood classification and the batched reads by id:                        *)
(* analyze_library_by_mood with get_audio_features, and                    *)
(* get_library_statistics.  valence, energy, danceability and acousticness *)
(* are kept in tenths (0.6 is 6), tempo in beats per minute.               *)
(***************************************************************************)
MaxMoodTracks == 2   \* tracks of an input whose features vary freely
MaxStatTracks == 2   \* tracks of a short input of get_library_statistics

audio_batch_size == 100   \* get_audio_features: ids per request
artists_batch_size == 50  \* get_library_statistics: ids per request

\* the service has no audio features for the id: None in the answer
NoFeatures == [none |-> TRUE]

Moods == {"Happy", "Sad", "Energetic", "Calm", "Party", "Chill"}

\* feature values on both sides of every threshold and on it
Profiles ==
    [valence : {3, 4, 6, 7}, energy : {3, 4, 5, 6, 7, 8},
     tempo : {99, 100, 120, 121}, danceability : {7, 8},
     acousticness : {5, 6}]

\* valence=0.8, energy=0.8, danceability=0.9, tempo=130, acousticness=0.1
Upbeat == [valence |-> 8, energy |-> 8, tempo |-> 130, danceability |-> 9,
           acousticness |-> 1]

Mellow == [valence |-> 3, energy |-> 3, tempo |-> 90, danceability |-> 2,
           acousticness |-> 8]

Plain == [valence |-> 5, energy |-> 5, tempo |-> 110, danceability |-> 5,
          acousticness |-> 5]

SomeProfiles == {Upbeat, Mellow, Plain, NoFeatures}

\* the features of the tracks of a long input, by position
PatternProfile(pat, i) ==
    CASE pat = "scored" -> IF i % 2 = 0 THEN Upbeat ELSE Mellow
      [] pat = "gaps" -> IF i % 3 = 0 THEN NoFeatures
                         ELSE IF i % 3 = 1 THEN Upbeat ELSE Plain
      [] OTHER -> NoFeatures

\* input lengths around the request ceiling b
LongSizes(b) == {b, b + 1, 2 * b + 1}

\* [t['id'] for t in tracks]
TrackIds(trks) == [i \in 1..Len(trks) |-> trks[i].id]

\* IdBatch with a slice that is one id too long
IdBatchOneTooMany(ids, i, b) == SubSeq(ids, i + 1, Min(i + b + 1, Len(ids)))

\* ids[i:i + batch_size]
IdBatch(ids, i, b) == SubSeq(ids, i + 1, Min(i + b, Len(ids)))

\* what sp.audio_features(batch) returns: one entry per id, None for an id
\* without features
AudioFeatures(batch) ==
    [k \in 1..Len(batch) |->
        IF audio[batch[k]] = NoFeatures THEN NoFeatures
        ELSE [id |-> batch[k], f |-> audio[batch[k]]]]

\* [f for f in features if f]
Resolved(features) == SelectSeq(features, LAMBDA f : f # NoFeatures)

\* feature_dict.get(track['id']) for feature_dict = {f['id']: f ...}
FeatureOf(features, id) ==
    IF \E k \in 1..Len(features) : features[k].id = id
    THEN features[CHOOSE k \in 1..Len(features) : features[k].id = id].f
    ELSE NoFeatures

\* MoodTest with the Happy test passing a valence on the threshold
MoodTestLooseHappy(m, f) ==
    CASE m = "Happy" -> f.valence >= 6 /\ f.energy > 6
      [] m = "Sad" -> f.valence < 4 /\ f.energy < 4
      [] m = "Energetic" -> f.energy > 7 /\ f.tempo > 120
      [] m = "Calm" -> f.energy < 4 /\ f.tempo < 100
      [] m = "Party" -> f.danceability > 7 /\ f.energy > 7
      [] m = "Chill" -> f.acousticness > 5 /\ f.energy < 5

\* the six independent tests of analyze_library_by_mood
MoodTest(m, f) ==
    CASE m = "Happy" -> f.valence > 6 /\ f.energy > 6
      [] m = "Sad" -> f.valence < 4 /\ f.energy < 4
      [] m = "Energetic" -> f.energy > 7 /\ f.tempo > 120
      [] m = "Calm" -> f.energy < 4 /\ f.tempo < 100
      [] m = "Party" -> f.danceability > 7 /\ f.energy > 7
      [] m = "Chill" -> f.acousticness > 5 /\ f.energy < 5

\* MoodMap without the skip of a track that has no features: the track is
\* scored as if its features were Mellow
MoodMapNoSkip(trks, features) ==
    [m \in Moods |->
        SelectSeq(trks, LAMBDA t :
            MoodTest(m, IF FeatureOf(features, t.id) = NoFeatures THEN Mellow
                        ELSE FeatureOf(features, t.id)))]

\* the loop over the tracks: skip a track without features, append the
\* track to the list of every mood whose test it passes
MoodMap(trks, features) ==
    [m \in Moods |->
        SelectSeq(trks, LAMBDA t :
            /\ FeatureOf(features, t.id) # NoFeatures
            /\ MoodTest(m, FeatureOf(features, t.id)))]

InitMood ==
    /\ op = "analyze_library_by_mood"
    /\ \/ \E n \in 0..MaxMoodTracks : audio \in [1..n -> SomeProfiles]
       \/ audio \in [1..1 -> Profiles]
       \/ \E n \in LongSizes(audio_batch_size) :
            \E pat \in {"scored", "gaps", "none"} :
               audio = [i \in 1..n |-> PatternProfile(pat, i)]
    /\ tracks = [i \in 1..Len(audio) |-> [id |-> i]]
    /\ artistGenres = <<>> /\ artist_ids = <<>> /\ stat_genres = {}
    /\ genre_map = <<>> /\ mood_map = <<>> /\ ti = 0 /\ all_features = <<>>
    /\ pc = "run" /\ result = <<>> /\ calls = <<>>
    /\ NoPaging
    /\ NoBuild
    /\ NoWeb
    /\ NoFilter
    /\ NoRepeat

\* the primary artist of track i: every track its own artist, or two
\* consecutive tracks sharing one
ArtistOf(share, i) == IF share = "own" THEN i ELSE (i + 1) \div 2

\* the genre list of artist a in the service
GenresOfArtist(a) ==
    CASE a % 4 = 0 -> <<>>
      [] a % 4 = 1 -> <<"rock">>
      [] a % 4 = 2 -> <<"dream pop", "shoegaze">>
      [] OTHER -> <<"shoegaze", "rock">>

\* list(set(...)) of the artist ids 1..k: the order of a set is not
\* fixed, ascending and descending stand for it
SetOrders(k) == {[i \in 1..k |-> i], [i \in 1..k |-> k + 1 - i]}

InitStatistics ==
    /\ op = "get_library_statistics"
    /\ \E n \in (0..MaxStatTracks) \cup LongSizes(artists_batch_size) :
         \E share \in {"own", "pairs"} :
            /\ tracks = [i \in 1..n |->
                             [id |-> i, artist |-> ArtistOf(share, i)]]
            /\ artistGenres = [a \in 1..n |-> GenresOfArtist(a)]
            /\ artist_ids \in SetOrders(IF n = 0 THEN 0 ELSE ArtistOf(share, n))
    /\ audio = <<>> /\ stat_genres = {}
    /\ genre_map = <<>> /\ mood_map = <<>> /\ ti = 0 /\ all_features = <<>>
    /\ pc = "run" /\ result = <<>> /\ calls = <<>>
    /\ NoPaging
    /\ NoBuild
    /\ NoWeb
    /\ NoFilter
    /\ NoRepeat

InitBatchReads ==
    \/ InitMood
    \/ InitStatistics

\* one request of get_audio_features; after the last one the rest of
\* analyze_library_by_mood up to its return
GetAudioFeaturesBatch ==
    /\ op = "analyze_library_by_mood" /\ pc = "run" /\ ti < Len(tracks)
    /\ \E ok \in BOOLEAN :
         LET batch == IdBatch(TrackIds(tracks), ti, audio_batch_size)
             feats == all_features \o Resolved(AudioFeatures(batch))
         IN /\ calls' = Append(calls, Call("audio_features", batch, ti, ok))
            /\ IF ~ok
               THEN /\ pc' = "raised"
                    /\ UNCHANGED <<ti, all_features, mood_map, result>>
               ELSE /\ all_features' = feats
                    /\ ti' = ti + audio_batch_size
                    /\ IF ti + audio_batch_size >= Len(tracks)
                       THEN /\ mood_map' = MoodMap(tracks, feats)
                            /\ result' = MoodMap(tracks, feats)
                            /\ pc' = "returned"
                       ELSE UNCHANGED <<mood_map, result, pc>>
    /\ UNCHANGED <<op, tracks, pageVars, artistGenres, audio, genre_map,
                   artist_ids, stat_genres, buildVars, webVars,
                   filterVars, repeatVars>>

\* get_audio_features([]) returns [] without a request: every mood list
\* stays empty
AnalyzeMoodEmpty ==
    /\ op = "analyze_library_by_mood" /\ pc = "run" /\ tracks = <<>>
    /\ mood_map' = MoodMap(tracks, <<>>)
    /\ result' = MoodMap(tracks, <<>>)
    /\ pc' = "returned"
    /\ UNCHANGED <<op, tracks, pageVars, calls, artistGenres, audio,
                   genre_map, ti, all_features, artist_ids, stat_genres,
                   buildVars, webVars,
                   filterVars, repeatVars>>

\* the value get_library_statistics returns
Statistics(genres) == [total_tracks |-> Len(tracks), genres |-> genres]

\* one request of the loop of get_library_statistics over artist_ids
GetArtistsBatch ==
    /\ op = "get_library_statistics" /\ pc = "run" /\ ti < Len(artist_ids)
    /\ \E ok \in BOOLEAN :
         LET batch == IdBatch(artist_ids, ti, artists_batch_size)
             genres == stat_genres \cup
                       UNION {Range(artistGenres[batch[k]]) :
                                  k \in 1..Len(batch)}
         IN /\ calls' = Append(calls, Call("artists", batch, ti, ok))
            /\ IF ~ok
               THEN /\ pc' = "raised"
                    /\ UNCHANGED <<ti, stat_genres, result>>
               ELSE /\ stat_genres' = genres
                    /\ ti' = ti + artists_batch_size
                    /\ IF ti + artists_batch_size >= Len(artist_ids)
                       THEN /\ result' = Statistics(genres)
                            /\ pc' = "returned"
                       ELSE UNCHANGED <<result, pc>>
    /\ UNCHANGED <<op, tracks, pageVars, artistGenres, audio, genre_map,
                   mood_map, all_features, artist_ids, buildVars, webVars,
                   filterVars, repeatVars>>

\* no track, so no artist id and no request
StatisticsEmpty ==
    /\ op = "get_library_statistics" /\ pc = "run" /\ artist_ids = <<>>
    /\ result' = Statistics(stat_genres)
    /\ pc' = "returned"
    /\ UNCHANGED <<op, tracks, pageVars, calls, classVars, buildVars, webVars,
                   filterVars, repeatVars>>

NextBatchReads ==
    \/ GetAudioFeaturesBatch
    \/ AnalyzeMoodEmpty
    \/ GetArtistsBatch
    \/ StatisticsEmpty

SpecBatchReads == InitBatchReads /\ [][NextBatchReads]_vars

(***************************************************************************)
(* Properties of the mood classification and of the batched reads.         *)
(***************************************************************************)
\* the threshold predicate of mood m, in tenths
PassesMood(m, f) ==
    \/ m = "Happy" /\ f.valence > 6 /\ f.energy > 6
    \/ m = "Sad" /\ f.valence < 4 /\ f.energy < 4
    \/ m = "Energetic" /\ f.energy > 7 /\ f.tempo > 120
    \/ m = "Calm" /\ f.energy < 4 /\ f.tempo < 100
    \/ m = "Party" /\ f.danceability > 7 /\ f.energy > 7
    \/ m = "Chill" /\ f.acousticness > 5 /\ f.energy < 5

Scored(t) == audio[t.id] # NoFeatures

MoodReturned == op = "analyze_library_by_mood" /\ pc = "returned"

\* C16: analyze_library_by_mood puts a track that has audio features in
\* the bucket of mood m, once, exactly when the features pass the strict
\* thresholds of m, for each of the six moods independently; a value on a
\* threshold does not pass.
C16_MoodBucketIffThreshold ==
    MoodReturned =>
        /\ DOMAIN result = Moods
        /\ \A m \in Moods : \A i \in 1..Len(tracks) :
               Scored(tracks[i]) =>
                   Cardinality({j \in 1..Len(result[m]) :
                                   result[m][j] = tracks[i]})
                       = IF PassesMood(m, audio[tracks[i].id]) THEN 1 ELSE 0

\* C16 witness: the track with valence 0.8, energy 0.8, danceability 0.9,
\* tempo 130 and acousticness 0.1 is in Happy, Energetic and Party only,
\* and a second track is in Sad, Calm and Chill only.
C16_Witness ==
    /\ MoodReturned
    /\ audio = <<Upbeat, Mellow>>
    /\ result = [m \in Moods |->
                    IF m \in {"Happy", "Energetic", "Party"}
                    THEN <<tracks[1]>> ELSE <<tracks[2]>>]

\* C17: a track without audio features is in no mood bucket and causes no
\* error (the operation raises only when a request fails); the buckets are
\* those of the input without such tracks.
C17_TrackWithoutFeaturesSkipped ==
    /\ (op = "analyze_library_by_mood" /\ pc = "raised") => ~AllOk
    /\ MoodReturned =>
           /\ \A m \in Moods : \A i \in 1..Len(tracks) :
                  ~Scored(tracks[i]) =>
                      \A j \in 1..Len(result[m]) : result[m][j] # tracks[i]
           /\ result = [m \in Moods |->
                            SelectSeq(SelectSeq(tracks, Scored),
                                LAMBDA t : PassesMood(m, audio[t.id]))]

\* C17 witness: a long input in which every third track has no audio
\* features was classified; Happy holds the tracks 1, 4, 7, ...
C17_Witness ==
    /\ MoodReturned
    /\ Len(tracks) = 2 * audio_batch_size + 1
    /\ audio[3] = NoFeatures /\ audio[1] = Upbeat /\ audio[2] = Plain
    /\ Len(result["Happy"]) = 67
    /\ result["Happy"][2] = tracks[4]

\* the ids handed to the service by the first n requests, in order
RECURSIVE RequestedIds(_)
RequestedIds(n) ==
    IF n = 0 THEN <<>> ELSE RequestedIds(n - 1) \o calls[n].target

\* the id list a batched read works through, and its ceiling
BatchedIds ==
    IF op = "analyze_library_by_mood" THEN TrackIds(tracks) ELSE artist_ids

Ceiling == IF op = "analyze_library_by_mood" THEN 100 ELSE 50

\* C18: an audio-features request carries at most 100 track ids and an
\* artists request at most 50 artist ids; the batches requested so far are
\* a prefix of the id list, and the whole list once the lookup is through:
\* every id is requested exactly once, in order.
C18_BatchesRespectCeiling ==
    op \in {"analyze_library_by_mood", "get_library_statistics"} =>
        /\ \A j \in 1..Len(calls) :
               /\ Len(calls[j].target) <= Ceiling
               /\ calls[j].target # <<>>
        /\ Len(RequestedIds(Len(calls))) <= Len(BatchedIds)
        /\ RequestedIds(Len(calls)) =
               SubSeq(BatchedIds, 1, Len(RequestedIds(Len(calls))))
        /\ pc = "returned" => RequestedIds(Len(calls)) = BatchedIds

\* C18 witness: 201 track ids were looked up with three requests of 100,
\* 100 and 1 ids.
C18_Witness ==
    /\ MoodReturned
    /\ Len(tracks) = 201
    /\ Len(calls) = 3
    /\ Len(calls[1].target) = 100 /\ Len(calls[2].target) = 100
    /\ Len(calls[3].target) = 1

(***************************************************************************)
(* SpotifyLibraryAnalyzer.filter_tracks: the year and artist filters are   *)
(* local, the genre filter issues one sp.artist call per track, the mood   *)
(* filter reads the audio features in batches.                             *)
(***************************************************************************)
MaxFilterTracks == 2 \* tracks given to filter_tracks

\* str.lower() on the strings that occur in the inputs
Lower(str) ==
    CASE str = "Ab" -> "ab"
      [] str = "AB" -> "ab"
      [] str = "Dream Pop" -> "dream pop"
      [] str = "Pop" -> "pop"
      [] str = "Sad" -> "sad"
      [] str = "ENERGETIC" -> "energetic"
      [] str = "Party" -> "party"
      [] str = "Chill" -> "chill"
      [] OTHER -> str

\* str.strip() on the strings that occur in the inputs
Strip(str) ==
    CASE str = " AB " -> "AB"
      [] str = " " -> ""
      [] OTHER -> str

\* a in b for two lower-case strings of the inputs
IsIn(a, b) == a = b \/ a = "" \/ (a = "pop" /\ b = "dream pop")

TrackKinds == 1..4

\* the track of kind k at position i of the input
KindTrack(k, i) ==
    CASE k = 1 -> [id |-> i, release_year |-> 1994, artists |-> <<"Ab">>,
                   artist |-> 1]
      [] k = 2 -> [id |-> i, release_year |-> 1985,
                   artists |-> <<"cd", "ab">>, artist |-> 2]
      [] k = 3 -> [id |-> i, release_year |-> NoYear, artists |-> <<"cd">>,
                   artist |-> 3]
      [] OTHER -> [id |-> i, release_year |-> 1990, artists |-> <<"ab">>,
                   artist |-> 2]

\* the audio features the service holds for a track of kind k
KindFeatures(k) ==
    CASE k = 1 -> Upbeat
      [] k = 2 -> Mellow
      [] k = 3 -> NoFeatures
      [] OTHER -> Plain

\* the genres of the three artists held by the service
FilterArtistGenres == << <<"Dream Pop", "shoegaze">>, <<"rock">>, <<>> >>

\* year_from and year_to: absent, zero, or a year
YearArgs == {None, 0, 1990, 1994}

NameArgs == {<<>>, <<" AB ">>, <<"cd", " ">>}

GenreArgs == {<<>>, <<"Pop">>, <<"rock", "">>}

MoodArgs == {"", "happy", "Sad", "ENERGETIC", "calm", "Party", "chill"}

InitFilter ==
    /\ op = "filter_tracks"
    /\ \E n \in 0..MaxFilterTracks : \E ks \in [1..n -> TrackKinds] :
          /\ tracks = [i \in 1..n |-> KindTrack(ks[i], i)]
          /\ audio = [i \in 1..n |-> KindFeatures(ks[i])]
    /\ artistGenres = FilterArtistGenres
    /\ fgenres \in GenreArgs
    /\ fmood \in MoodArgs
    /\ year_from \in YearArgs \ {1994}
    /\ year_to \in YearArgs \ {1990}
    /\ fartists \in NameArgs
    /\ filtered = <<>> /\ filtered_by_genre = <<>>
    /\ genre_map = <<>> /\ mood_map = <<>> /\ ti = 0 /\ all_features = <<>>
    /\ artist_ids = <<>> /\ stat_genres = {}
    /\ pc = "run" /\ result = <<>> /\ calls = <<>>
    /\ NoPaging
    /\ NoBuild
    /\ NoWeb
    /\ NoRepeat

\* the year filter (lines 413-419)
YearFilter(trks) ==
    IF Truthy(year_from) \/ Truthy(year_to)
    THEN SelectSeq(trks, LAMBDA t :
             /\ t.release_year # NoYear
             /\ (~Truthy(year_from) \/ t.release_year >= year_from)
             /\ (~Truthy(year_to) \/ t.release_year <= year_to))
    ELSE trks

\* [a.strip().lower() for a in artists if a.strip()]
CleanNames(names) ==
    LET kept == SelectSeq(names, LAMBDA a : Strip(a) # "")
    IN [i \in 1..Len(kept) |-> Lower(Strip(kept[i]))]

\* the artist filter (lines 422-428)
ArtistFilter(trks) ==
    IF fartists # <<>>
    THEN SelectSeq(trks, LAMBDA t :
             \E k \in 1..Len(t.artists) :
                 Lower(t.artists[k]) \in Range(CleanNames(fartists)))
    ELSE trks

\* the genre test with equality in place of the substring test
GenreMatchWholeName(artist_id) ==
    \E fg \in Range(CleanNames(fgenres)) :
        \E k \in 1..Len(artistGenres[artist_id]) :
            fg = Lower(artistGenres[artist_id][k])

\* any(any(filter_genre in genre for genre in artist_genres) ...)
GenreMatch(artist_id) ==
    \E fg \in Range(CleanNames(fgenres)) :
        \E k \in 1..Len(artistGenres[artist_id]) :
            IsIn(fg, Lower(artistGenres[artist_id][k]))

\* the if / elif chain of the mood filter (lines 465-477)
MoodFilterTest(mood, f) ==
    CASE Lower(mood) = "happy" -> f.valence > 6 /\ f.energy > 6
      [] Lower(mood) = "sad" -> f.valence < 4 /\ f.energy < 4
      [] Lower(mood) = "energetic" -> f.energy > 7 /\ f.tempo > 120
      [] Lower(mood) = "calm" -> f.energy < 4 /\ f.tempo < 100
      [] Lower(mood) = "party" -> f.danceability > 7 /\ f.energy > 7
      [] OTHER -> FALSE

\* the loop of the mood filter over the list flt
MoodFiltered(flt, features) ==
    SelectSeq(flt, LAMBDA t :
        /\ FeatureOf(features, t.id) # NoFeatures
        /\ MoodFilterTest(fmood, FeatureOf(features, t.id)))

\* how filter_tracks goes on with the list flt after the genre filter: to
\* the first audio-features request, or to the return
ToMood(flt) ==
    IF fmood # "" /\ flt # <<>> THEN [pc |-> "mood", filtered |-> flt]
    ELSE [pc |-> "returned", filtered |-> flt]

\* how filter_tracks goes on with the list flt after the artist filter: to
\* the first artist lookup, or on to the mood filter
ToGenre(flt) ==
    IF fgenres # <<>> /\ flt # <<>> THEN [pc |-> "genre", filtered |-> flt]
    ELSE ToMood(flt)

\* the variables filter_tracks never assigns
filterArgs == <<op, tracks, pageVars, artistGenres, audio, genre_map,
                mood_map, artist_ids, stat_genres, fgenres, fmood, year_from,
                year_to, fartists, buildVars, webVars, repeatVars>>

\* filter_tracks from its entry to its first remote call, or to its
\* return when no remote call is needed
FilterLocal ==
    /\ op = "filter_tracks" /\ pc = "run"
    /\ LET nxt == ToGenre(ArtistFilter(YearFilter(tracks)))
       IN /\ filtered' = nxt.filtered
          /\ pc' = nxt.pc
          /\ ti' = IF nxt.pc = "genre" THEN 1 ELSE 0
          /\ result' = IF nxt.pc = "returned" THEN nxt.filtered ELSE result
    /\ UNCHANGED <<filterArgs, calls, filtered_by_genre, all_features>>

\* one iteration of the genre loop: sp.artist for the track's primary
\* artist; a failed lookup is logged and the track left out
FilterGenreLookup ==
    /\ op = "filter_tracks" /\ pc = "genre" /\ ti <= Len(filtered)
    /\ \E ok \in BOOLEAN :
         LET track == filtered[ti]
             kept == IF ok /\ GenreMatch(track.artist)
                     THEN Append(filtered_by_genre, track)
                     ELSE filtered_by_genre
             nxt == ToMood(kept)
         IN /\ calls' = Append(calls, Call("artist", track.artist, 0, ok))
            /\ filtered_by_genre' = kept
            /\ IF ti = Len(filtered)
               THEN /\ filtered' = nxt.filtered
                    /\ pc' = nxt.pc
                    /\ ti' = 0
                    /\ result' = IF nxt.pc = "returned" THEN nxt.filtered
                                  ELSE result
               ELSE /\ ti' = ti + 1
                    /\ UNCHANGED <<filtered, pc, result>>
    /\ UNCHANGED <<filterArgs, all_features>>

\* one request of get_audio_features for the mood filter; after the last
\* one the mood loop and the return
FilterMoodBatch ==
    /\ op = "filter_tracks" /\ pc = "mood" /\ ti < Len(filtered)
    /\ \E ok \in BOOLEAN :
         LET batch == IdBatch(TrackIds(filtered), ti, audio_batch_size)
             feats == all_features \o Resolved(AudioFeatures(batch))
         IN /\ calls' = Append(calls, Call("audio_features", batch, ti, ok))
            /\ IF ~ok
               THEN /\ pc' = "raised"
                    /\ UNCHANGED <<ti, all_features, filtered, result>>
               ELSE /\ all_features' = feats
                    /\ ti' = ti + audio_batch_size
                    /\ IF ti + audio_batch_size >= Len(filtered)
                       THEN /\ filtered' = MoodFiltered(filtered, feats)
                            /\ result' = MoodFiltered(filtered, feats)
                            /\ pc' = "returned"
                       ELSE UNCHANGED <<filtered, result, pc>>
    /\ UNCHANGED <<filterArgs, filtered_by_genre>>

NextFilter ==
    \/ FilterLocal
    \/ FilterGenreLookup
    \/ FilterMoodBatch

SpecFilter == InitFilter /\ [][NextFilter]_vars

(***************************************************************************)
(* Properties of filter_tracks.                                            *)
(***************************************************************************)
FilterReturned == op = "filter_tracks" /\ pc = "returned"

\* the bucket of analyze_library_by_mood a mood argument names
BucketOfMood(mood) ==
    CASE Lower(mood) = "happy" -> "Happy"
      [] Lower(mood) = "sad" -> "Sad"
      [] Lower(mood) = "energetic" -> "Energetic"
      [] Lower(mood) = "calm" -> "Calm"
      [] Lower(mood) = "party" -> "Party"
      [] Lower(mood) = "chill" -> "Chill"

InYearRange(t) ==
    (year_from = None /\ year_to = None) \/
    (/\ t.release_year # NoYear
     /\ (year_from = None \/ t.release_year >= year_from)
     /\ (year_to = None \/ t.release_year <= year_to))

ByArtists(t) ==
    fartists = <<>> \/
    \E k \in 1..Len(t.artists) : \E a \in Range(fartists) :
        Strip(a) # "" /\ Lower(t.artists[k]) = Lower(Strip(a))

ByGenres(t) ==
    fgenres = <<>> \/
    \E g \in Range(fgenres) : \E k \in 1..Len(artistGenres[t.artist]) :
        Strip(g) # "" /\ IsIn(Lower(Strip(g)), Lower(artistGenres[t.artist][k]))

ByMood(t) ==
    fmood = "" \/
    (audio[t.id] # NoFeatures /\ PassesMood(BucketOfMood(fmood), audio[t.id]))

\* C19: when every request succeeds, filter_tracks returns, in input order,
\* exactly the tracks that satisfy every supplied predicate (year range,
\* artists, genres, mood); a predicate that is not supplied excludes no
\* track, and with none supplied the result is the input.
C19_FilterIsConjunctionOfSupplied ==
    (FilterReturned /\ AllOk) =>
        result = SelectSeq(tracks, LAMBDA t :
                     InYearRange(t) /\ ByArtists(t) /\ ByGenres(t) /\ ByMood(t))

\* C20: when every request succeeds, filter_tracks(tracks, mood=m) returns
\* the list analyze_library_by_mood puts under m for the same tracks, for
\* each of the six moods in any letter case.
C20_MoodFilterEqualsMoodBucket ==
    (/\ FilterReturned /\ AllOk
     /\ fmood # "" /\ fgenres = <<>> /\ fartists = <<>>
     /\ year_from = None /\ year_to = None) =>
        result = MoodMap(tracks,
                     Resolved(AudioFeatures(TrackIds(tracks))))[
                         BucketOfMood(fmood)]

(***************************************************************************)
(* The year predicate of filter_tracks.                                    *)
(***************************************************************************)
\* only year bounds are given to filter_tracks
OnlyYearBounds ==
    /\ year_from # None \/ year_to # None
    /\ fartists = <<>> /\ fgenres = <<>> /\ fmood = ""

\* y lies between the bounds that are given, the bounds included
WithinBounds(y) ==
    /\ (year_from = None \/ y >= year_from)
    /\ (year_to = None \/ y <= year_to)

\* C21: with year_from and/or year_to given, a track that has a release
\* year y is returned by filter_tracks if and only if y >= year_from (when
\* year_from is given) and y <= year_to (when year_to is given).
C21_YearBoundsInclusive ==
    (FilterReturned /\ OnlyYearBounds) =>
        \A i \in 1..Len(tracks) :
            tracks[i].release_year # NoYear =>
                (tracks[i] \in Range(result)
                    <=> WithinBounds(tracks[i].release_year))

\* the same statement for bounds other than zero
C21_HoldsForNonZeroBounds ==
    (year_from # 0 /\ year_to # 0) => C21_YearBoundsInclusive

(***************************************************************************)
(* The genre predicate of filter_tracks.                                   *)
(***************************************************************************)
\* only the genres argument is given to filter_tracks
OnlyGenres ==
    /\ fgenres # <<>>
    /\ year_from = None /\ year_to = None
    /\ fartists = <<>> /\ fmood = ""

\* some filter genre that is not blank is, letter case and surrounding
\* blanks set aside, a substring of some genre of artist a
SomeGenreContains(a) ==
    \E g \in Range(fgenres) : \E k \in 1..Len(artistGenres[a]) :
        /\ Strip(g) # ""
        /\ IsIn(Lower(Strip(g)), Lower(artistGenres[a][k]))

\* C22: with the genres argument given, a track whose primary artist was
\* resolved is returned by filter_tracks if and only if some filter genre
\* is, ignoring case, a substring of some genre of that artist; a track
\* whose artist has no genres is not returned.
C22_GenreSubstringOfArtistGenre ==
    (FilterReturned /\ OnlyGenres) =>
        /\ Len(calls) = Len(tracks)
        /\ \A i \in 1..Len(tracks) :
              /\ calls[i].api = "artist"
              /\ calls[i].target = tracks[i].artist
              /\ calls[i].ok =>
                    (tracks[i] \in Range(result)
                        <=> SomeGenreContains(tracks[i].artist))
              /\ artistGenres[tracks[i].artist] = <<>> =>
                    tracks[i] \notin Range(result)

\* filter "Pop" returns the track of an artist with genre "Dream Pop" and
\* leaves out the track of an artist without genres
C22_Witness ==
    /\ FilterReturned /\ OnlyGenres
    /\ fgenres = <<"Pop">>
    /\ Len(tracks) = 2 /\ Len(result) = 1
    /\ tracks[1].artist = 1 /\ result[1] = tracks[1]
    /\ tracks[2].artist = 3
    /\ calls[1].ok /\ calls[2].ok

(***************************************************************************)
(* The create calls of a builder.                                          *)
(***************************************************************************)
\* the number of create-playlist calls issued for bucket b
CreatesFor(b) ==
    Cardinality({i \in 1..Len(writes) :
                    IsCreate(writes[i]) /\ writes[i].bucket = b})

\* the number of create-playlist calls issued in the run
Creates == Cardinality({i \in 1..Len(writes) : IsCreate(writes[i])})

\* the genre, mood, decade and artist builders
FourBuilders == Builders \ {"create_year_playlists"}

\* C23 as stated: when a builder has returned, it has issued exactly one
\* create-playlist call for each bucket that holds at least one track and
\* none for an empty bucket, so as many create calls as there are
\* non-empty buckets.
C23_OneCreatePerNonEmptyBucket ==
    (entry \in FourBuilders /\ bpc = "done") =>
        /\ \A b \in 1..Len(mapping) :
              CreatesFor(b) = IF mapping[b].tracks # <<>> THEN 1 ELSE 0
        /\ Creates = Cardinality({b \in 1..Len(mapping) :
                                     mapping[b].tracks # <<>>})

\* create_artist_playlists takes the buckets of at least min_tracks
\* tracks, the other builders the buckets that are not empty
Eligible(b) ==
    IF entry = "create_artist_playlists"
    THEN Len(mapping[b].tracks) >= min_tracks
    ELSE mapping[b].tracks # <<>>

\* C23 amended: when the genre, mood or decade builder has returned, it
\* has issued exactly one create-playlist call for each non-empty bucket
\* and none for an empty one; create_artist_playlists has issued exactly
\* one for each bucket of at least min_tracks tracks and none for a
\* smaller one. No bucket ever gets a second create call.
C23_OneCreatePerEligibleBucket ==
    entry \in FourBuilders =>
        /\ \A b \in 1..Len(mapping) : CreatesFor(b) <= 1
        /\ bpc = "done" =>
              /\ \A b \in 1..Len(mapping) :
                    CreatesFor(b) = IF Eligible(b) THEN 1 ELSE 0
              /\ Creates = Cardinality({b \in 1..Len(mapping) :
                                           Eligible(b)})

\* C23 witness: create_artist_playlists with min_tracks = 5 has returned
\* after one create call for the bucket of 101 tracks and none for the
\* bucket of one track.
C23_Witness ==
    /\ entry = "create_artist_playlists" /\ bpc = "done"
    /\ min_tracks = min_tracks_default
    /\ Len(mapping) = 2
    /\ Len(mapping[1].tracks) = 1 /\ CreatesFor(1) = 0
    /\ Len(mapping[2].tracks) = add_batch_size + 1 /\ CreatesFor(2) = 1

(***************************************************************************)
(* A classification run twice by one caller on the same list of tracks:    *)
(* analyze_library_by_genre, analyze_library_by_mood,                      *)
(* analyze_library_by_artist and the grouping of create_decade_playlists.  *)
(***************************************************************************)
Classifications ==
    {"analyze_library_by_genre", "analyze_library_by_mood",
     "analyze_library_by_artist", "create_decade_playlists"}

MaxArtistTracks == 3  \* tracks given to analyze_library_by_artist

\* analyze_library_by_artist: artist_map[artist_name].append(track) for
\* every track, the names in order of first appearance
RECURSIVE ArtistMap(_)
ArtistMap(trks) ==
    IF trks = <<>> THEN <<>>
    ELSE LET t == trks[Len(trks)]
         IN AppendToBucket(ArtistMap(SubSeq(trks, 1, Len(trks) - 1)),
                           t.artists[1], t)

InitArtist ==
    /\ op = "analyze_library_by_artist"
    /\ \E n \in 0..MaxArtistTracks : \E ks \in [1..n -> TrackKinds] :
          tracks = [i \in 1..n |-> KindTrack(ks[i], i)]
    /\ artistGenres = <<>> /\ audio = <<>>

InitGrouping ==
    /\ op = "create_decade_playlists"
    /\ tracks \in DecadeInputs
    /\ artistGenres = <<>> /\ audio = <<>>

InitRepeat ==
    /\ \/ InitGenre
       \/ InitMood
       \/ /\ InitArtist \/ InitGrouping
          /\ genre_map = <<>> /\ mood_map = <<>> /\ ti = 0
          /\ all_features = <<>> /\ artist_ids = <<>> /\ stat_genres = {}
          /\ pc = "run" /\ result = <<>> /\ calls = <<>>
          /\ NoPaging /\ NoBuild /\ NoWeb /\ NoFilter /\ NoRepeat

\* analyze_library_by_artist from entry to return: it issues no request
AnalyzeArtist ==
    /\ op = "analyze_library_by_artist" /\ pc = "run"
    /\ result' = ArtistMap(tracks)
    /\ pc' = "returned"
    /\ UNCHANGED <<op, tracks, pageVars, calls, classVars, buildVars, webVars,
                   filterVars, repeatVars>>

\* the grouping loop at the head of create_decade_playlists
GroupByDecade ==
    /\ op = "create_decade_playlists" /\ pc = "run"
    /\ result' = DecadeMap(tracks)
    /\ pc' = "returned"
    /\ UNCHANGED <<op, tracks, pageVars, calls, classVars, buildVars, webVars,
                   filterVars, repeatVars>>

\* a map that lives on from one run to the next
KeptMap(old) == old

\* every run starts with a map of its own: genre_map = defaultdict(list)
NewMap(old) == <<>>

\* the caller keeps the returned map and calls the same classification
\* again with the same list
ClassifyAgain ==
    /\ op \in Classifications /\ pc = "returned" /\ run = 0
    /\ run' = 1
    /\ first_map' = result
    /\ pc' = "run"
    /\ result' = <<>>
    /\ genre_map' = NewMap(genre_map)
    /\ mood_map' = <<>>
    /\ all_features' = <<>>
    /\ ti' = IF op = "analyze_library_by_genre" THEN 1 ELSE 0
    /\ UNCHANGED <<op, tracks, pageVars, calls, artistGenres, audio,
                   artist_ids, stat_genres, buildVars, webVars, filterVars>>

NextRepeat ==
    \/ AnalyzeGenreTrack
    \/ AnalyzeGenreEmpty
    \/ GetAudioFeaturesBatch
    \/ AnalyzeMoodEmpty
    \/ AnalyzeArtist
    \/ GroupByDecade
    \/ ClassifyAgain

SpecRepeat == InitRepeat /\ [][NextRepeat]_vars

\* the requests of the second run got the answers of the first run
SameAnswers ==
    LET n == Len(calls) \div 2
    IN /\ Len(calls) = 2 * n
       /\ \A k \in 1..n :
             /\ calls[n + k].api = calls[k].api
             /\ calls[n + k].target = calls[k].target
             /\ calls[n + k].ok = calls[k].ok

SecondRunReturned == run = 1 /\ pc = "returned"

FirstPageEmpty ==
    /\ op = "get_saved_tracks" /\ saved = <<>>
    /\ Len(calls) >= 1 /\ calls[1].ok

\* C25: once the first page of the saved tracks has been delivered empty,
\* get_saved_tracks has returned the empty list, has raised nothing and
\* has issued that one page request only, whatever the limit.
C25_EmptyFirstPageReturnsEmpty ==
    FirstPageEmpty =>
        /\ pc = "returned"
        /\ result = <<>>
        /\ Len(calls) = 1
        /\ calls[1].offset = 0

\* C25 witness: get_saved_tracks(limit=3) has returned after one request
\* on an empty collection.
C25_Witness ==
    /\ FirstPageEmpty /\ limit = 3
    /\ pc = "returned" /\ result = <<>> /\ Len(calls) = 1

(***************************************************************************)
(* The value create_custom_playlist returns.                               *)
(***************************************************************************)
\* the playlist was created and every batch of its URIs was written
CustomSucceeded ==
    /\ \E i \in 1..Len(writes) : IsCreate(writes[i]) /\ writes[i].ok
    /\ BucketUris(1) # <<>>
    /\ NoFailedAdd(1)
    /\ Len(remote) = 1 /\ remote[1] = BucketUris(1)

\* C26: create_custom_playlist returns the id of the new playlist if the
\* playlist was created and every batch of its track URIs was written,
\* and None in every other case (creation error, a failed batch, no
\* writable URI).
C26_CustomPlaylistIdIffSucceeded ==
    (entry = "create_custom_playlist" /\ bpc = "done") =>
        ret = IF CustomSucceeded THEN 1 ELSE None

(***************************************************************************)
(* The order of the write calls of a run.                                  *)
(***************************************************************************)
\* the entry points that create playlists from tracks
Materializations ==
    Builders \cup {"create_custom_playlist", "api_create_filtered_playlist"}

AllWritesOk == \A i \in 1..Len(writes) : writes[i].ok

\* C27: in a run that creates playlists the write calls come one after the
\* other, bucket by bucket in the order of the mapping: the first call for
\* a bucket is its create-playlist call and the only one, every add-items
\* call targets the playlist id that the successful create call of its
\* bucket returned earlier in the run, and the add-items calls of a bucket
\* carry the batches at offsets 0, 100, 200, ... in that order.
C27_WritesOrderedByBucketAndBatch ==
    entry \in Materializations =>
        /\ \A i, j \in 1..Len(writes) :
              i < j =>
                 /\ writes[i].bucket <= writes[j].bucket
                 /\ writes[i].bucket = writes[j].bucket =>
                       /\ IsAdd(writes[j])
                       /\ IsAdd(writes[i]) =>
                             writes[i].offset < writes[j].offset
        /\ \A j \in 1..Len(writes) :
              IsAdd(writes[j]) =>
                 \E i \in 1..(j - 1) :
                     /\ IsCreate(writes[i]) /\ writes[i].ok
                     /\ writes[i].pid = writes[j].pid
                     /\ writes[i].bucket = writes[j].bucket
                     /\ writes[j].offset = add_batch_size * (j - i - 1)

\* C27 witness: a builder has returned after create, add, add, add for a
\* first bucket of 201 URIs and create, add, add for a second of 101.
C27_Witness ==
    /\ entry \in Builders /\ bpc = "done"
    /\ Len(mapping) = 2 /\ Len(writes) = 7
    /\ Len(BucketUris(1)) = 2 * add_batch_size + 1
    /\ Len(BucketUris(2)) = add_batch_size + 1
    /\ IsCreate(writes[1]) /\ IsCreate(writes[5])
    /\ AllWritesOk

(***************************************************************************)
(* Termination of the pagination loops.  The program is one sequential     *)
(* process and the service answers every request, so a step that is        *)
(* possible is eventually taken.                                           *)
(***************************************************************************)
\* the states of InitFetch in which get_saved_tracks is started on a
\* collection and a limit around the page size, and in which the
\* playlists read by get_tracks_from_playlists differ in length only
InitFetchLive ==
    /\ InitFetch
    /\ op = "get_saved_tracks" =>
          /\ Len(saved) \in {0, 1, batch_size, batch_size + 1,
                             2 * batch_size + 1}
          /\ limit \in {None, 0, 1, batch_size, batch_size + 1}
    /\ op = "get_tracks_from_playlists" =>
          \A k \in 1..Len(plItems[1]) : plItems[1][k] = 1

SpecFetchLive ==
    InitFetchLive /\ [][NextFetch]_vars /\ WF_vars(NextFetch)

\* the page size of the loop that issued request i
PageSizeOf(i) ==
    CASE calls[i].api = "current_user_saved_tracks" -> batch_size
      [] calls[i].api = "current_user_playlists" -> batch_size
      [] op = "get_playlist_tracks" -> pl_batch_size
      [] OTHER -> PageLen

\* request i is the first page request for its source
FirstOfSource(i) ==
    \A j \in 1..(i - 1) : ~IsPageRequest(j) \/ calls[j].src # calls[i].src

\* within one pagination loop the first request is for offset 0 and each
\* further one for the offset of the one before plus the page size
OffsetsAdvance ==
    \A i \in 1..Len(calls) :
        IsPageRequest(i) =>
            IF FirstOfSource(i) THEN calls[i].offset = 0
            ELSE /\ calls[i - 1].src = calls[i].src
                 /\ calls[i - 1].ok
                 /\ calls[i].offset = calls[i - 1].offset + PageSizeOf(i)

\* C28: on a finite collection every pagination loop ends:
\* get_saved_tracks, get_user_playlists, get_playlist_tracks and
\* get_tracks_from_playlists eventually return, or raise when a request
\* failed; and within a loop no offset is requested twice, the offsets
\* going up by the page size from 0.
C28_PaginationTerminates ==
    /\ <>(pc = "returned" \/ pc = "raised")
    /\ [](pc = "raised" => ~AllOk)
    /\ []OffsetsAdvance

\* C28 witness: get_playlist_tracks has returned after the requests at
\* offsets 0, 100 and 200.
C28_Witness ==
    /\ op = "get_playlist_tracks" /\ pc = "returned" /\ AllOk
    /\ Len(calls) = 3
    /\ calls[1].offset = 0 /\ calls[2].offset = pl_batch_size
    /\ calls[3].offset = 2 * pl_batch_size

(***************************************************************************)
(* A failed artist lookup in analyze_library_by_genre.                     *)
(***************************************************************************)
\* the map of the first n tracks had every lookup succeeded
RECURSIVE MapHadAllSucceeded(_)
MapHadAllSucceeded(n) ==
    IF n = 0 THEN <<>>
    ELSE AppendToBuckets(MapHadAllSucceeded(n - 1),
                         GenresOrUnknown(artistGenres[tracks[n].artist]),
                         tracks[n])

\* the list under label g in a bucket map, empty when g is no label of it
Under(map, g) ==
    IF \E k \in 1..Len(map) : map[k].label = g
    THEN map[CHOOSE k \in 1..Len(map) : map[k].label = g].tracks
    ELSE <<>>

\* the tracks of a list whose lookup succeeded (the lookup for track i is
\* request i)
Looked(trks) == SelectSeq(trks, LAMBDA t : calls[t.id].ok)

\* C29: when analyze_library_by_genre has returned, it has looked up
\* every track, a track whose lookup failed is once under 'Unknown' and
\* under no other label, and under every label the tracks whose lookup
\* succeeded are those, in that order, that the run without any failure
\* puts there.
C29_FailedLookupOnlyMovesItsTrack ==
    (op = "analyze_library_by_genre" /\ pc = "returned") =>
        /\ Len(calls) = Len(tracks)
        /\ \A i \in 1..Len(tracks) :
              ~calls[i].ok =>
                 \A g \in Labels(result) \cup {"Unknown"} :
                     TimesUnder(result, g, tracks[i]) =
                         IF g = "Unknown" THEN 1 ELSE 0
        /\ \A g \in Labels(result)
                     \cup Labels(MapHadAllSucceeded(Len(tracks))) :
              Looked(Under(result, g)) =
                  Looked(Under(MapHadAllSucceeded(Len(tracks)), g))

\* C29 witness: of three tracks of artists with genres the lookup failed
\* for the second only, and the run has returned.
C29_Witness ==
    /\ op = "analyze_library_by_genre" /\ pc = "returned"
    /\ Len(tracks) = 3
    /\ \A i \in 1..3 : artistGenres[tracks[i].artist] # <<>>
    /\ calls[1].ok /\ ~calls[2].ok /\ calls[3].ok
    /\ Under(result, "Unknown") = <<tracks[2]>>

(***************************************************************************)
(* analyze_library_by_year followed by create_year_playlists.              *)
(***************************************************************************)
\* C30: create_year_playlists, given the map of analyze_library_by_year,
\* issues a create-playlist call only for a bucket whose label is a year
\* and whose tracks all have a release year; the tracks without one are
\* under 'Unknown', for which no call is issued.
C30_YearPlaylistsOnlyForYears ==
    entry = "create_year_playlists" =>
        /\ \A b \in 1..Len(mapping) :
              \A k \in 1..Len(mapping[b].tracks) :
                  mapping[b].tracks[k].release_year \in {NoKey, NoYear}
                      => mapping[b].label = Unknown
        /\ \A i \in 1..Len(writes) :
              IsCreate(writes[i]) =>
                  /\ mapping[writes[i].bucket].label >= 1
                  /\ \A k \in 1..Len(mapping[writes[i].bucket].tracks) :
                        mapping[writes[i].bucket].tracks[k].release_year >= 1

\* the same statement for dictionaries that lack the key 'release_year'
\* when they have no release year
C30_HoldsWhenKeyIsAbsent ==
    (\A i \in 1..Len(in_tracks) : in_tracks[i].release_year # NoYear)
        => C30_YearPlaylistsOnlyForYears

====
